---------------------------- MODULE Spec2Model ----------------------------
(***************************************************************************)
(* State-machine models of the code examples of the Go study notes:        *)
(* lock-ordered transfers, sync.Once singletons, synchronised counters,    *)
(* the Redis lock and cache helpers, the context-aware request worker,     *)
(* the goroutine pool and the runtime's chansend.                          *)
(*                                                                         *)
(* Every example owns a group of variables and a specification of its own  *)
(* (SpecXxx == Init /\ [][NextXxx]_vars); the variables of the other        *)
(* examples stay at their initial values under it.                         *)
(***************************************************************************)
EXTENDS Integers, Sequences, FiniteSets, TLC

\* ------------------------------------------------------------------ bounds
NCalls == 2        \* concurrent transferMoney calls
NAccounts == 3     \* accounts a transfer may name
NGetters == 3      \* goroutines calling GetInstance
NWorkers == 3      \* goroutines the counter loop starts (1000 in the notes)
NClients == 2      \* clients calling doWithLock
NLockNames == 2    \* lock names in use
NReaders == 2      \* goroutines calling GetUserWithCache
NUserIds == 2      \* user ids asked for
NReqs == 2         \* processRequest calls in flight
NSubmitters == 2   \* goroutines submitting to the pool
QueueCap == 1      \* Config.QueueSize of the pool (1000 by default)
MaxSubmits == 2    \* submit calls in one run
NChanGs == 2       \* goroutines using the channel
MaxBuf == 1        \* largest dataqsiz a make(chan T, n) is given
NVals == 1         \* values sent
MaxLockCalls == 2  \* doWithLock calls in one run (one fresh uuid each)
NProcs == 2        \* gomaxprocs: the scheduling P and the Ps it steals from
MaxRunq == 2       \* goroutines a run queue holds (256 in p.runq)
MaxTick == 62      \* largest schedtick a run reaches
MaxReady == 2      \* goroutines one netpoll(0) returns
NInputs == 2       \* input channels handed to fanIn
MaxSent == 2       \* values sent on the inputs in one run
MaxPoolWorkers == 2 \* largest numWorkers handed to workerPool
MaxTasks == 2      \* tasks sent on the tasks channel in one run
NTaskNames == 2    \* task ids given to AddTask / CancelTask
MaxAdds == 3       \* AddTask calls in one run (one timer each)
NCreditUsers == 2  \* user ids handed to TransferCredit
MaxCredit == 2     \* largest credit a user_credits row starts with
MaxAmount == 2     \* largest amount handed to TransferCredit
MaxTransfers == 2  \* committed transfers in one run
MaxCloseCalls == 2 \* UserRepo.Close calls in one run
MaxLogins == 2     \* successful logins in one run (one fresh session id each)
NProfileReqs == 2  \* GET /profile requests in flight
MaxOpFlags == 2    \* operation flags set on one command line
IntBits == 4       \* width of int in the arithmetic examples (64 in the build)
MaxStack == 4      \* elements on the Stack at most
NItemVals == 3     \* distinct values pushed
MaxChunks == 5     \* chunks of the file handed to processLargeFile at most
NInfoCallers == 2  \* goroutines calling getStructInfo
NTypes == 2        \* reflect.Types asked for
MaxInfoCalls == 3  \* getStructInfo calls in one run

Calls == 1..NCalls
Accounts == 1..NAccounts
Getters == 1..NGetters
Workers == 1..NWorkers
Clients == 1..NClients
LockNames == 1..NLockNames
Readers == 1..NReaders
UserIds == 1..NUserIds
Reqs == 1..NReqs
Submitters == 1..NSubmitters
ChanGs == 1..NChanGs
Vals == 1..NVals
NoOne == 0         \* "no goroutine": an unlocked mutex, a nil pointer

VARIABLES
    mu,        \* transfer: Account.mu of every account, its holder or NoOne
    tpc,       \* transfer: where each transferMoney call stands
    tplan,     \* transfer: <<first, second>> account a call locks
    instance,  \* singleton: the package variable, NoOne (nil) or a pointer
    onceDone,  \* singleton: once.done
    onceM,     \* singleton: once.m, its holder or NoOne
    initCount, \* singleton: how often the function given to once.Do has run
    gpc,       \* singleton: where each GetInstance call stands
    gret,      \* singleton: what each goroutine's last call returned
    counter,   \* counter: the shared counter
    cmu,       \* counter: the mutex mu, its holder or NoOne
    wg,        \* counter: the WaitGroup's count
    cmode,     \* counter: which synchronised increment the run uses
    cpc,       \* counter: where each goroutine stands
    ctmp,      \* counter: the value a goroutine read for counter++
    mainpc,    \* counter: where the spawning function stands
    spawned,   \* counter: the loop variable i
    lockKey,   \* lock: the Redis key lock:<lockName>, its value or NoOne (absent)
    uuidNext,  \* lock: the next value uuid.New() gives
    dpc,       \* lock: where each doWithLock call stands
    dname,     \* lock: the call's lockName
    dval,      \* lock: the call's lockValue
    dres,      \* lock: what the call returns
    relRes,    \* lock: what the call's releaseLock returned
    ranFn,     \* lock: whether the call has started fn
    lostKey,   \* lock: whether the call's key expired while its fn was running
    cache,     \* cache: the Redis key user:<id>: "absent", "empty" or "data"
    kpc,       \* cache: where each GetUserWithCache call stands
    kid,       \* cache: the call's id
    kres,      \* cache: what the call returned, <<user, err>>
    kasked,    \* cache: whether the call has called queryUserFromDB
    ch,        \* request: the result channel of each processRequest call
    ctxDone,   \* request: whether the call's ctx is done
    wpc,       \* request: where the call's worker goroutine stands
    rpc,       \* request: where the call itself stands
    rres,      \* request: what the call returned
    pclosed,   \* pool: Pool.closed
    quitClosed, \* pool: whether Pool.quit has been closed
    taskQueue, \* pool: Pool.taskQueue, the buffered tasks
    totalTasks, \* pool: Pool.totalTasks
    failedTasks, \* pool: Pool.failedTasks
    handed,    \* pool: tasks the dispatcher took and passed on to the workers
    now,       \* pool: the last time.Now() of the dispatcher, 0 being the zero time
    callbacks, \* pool: goroutines started by go task.Callback(deadline exceeded)
    submits,   \* pool: submit calls made so far
    spc,       \* pool: where each submit call stands
    stask,     \* pool: the call's task
    sctx,      \* pool: the call's ctx: "background", "live" or "done"
    sres,      \* pool: the error the call returned
    hmade,     \* chan: FALSE while the channel variable is nil
    dataqsiz,  \* chan: hchan.dataqsiz
    qcount,    \* chan: hchan.qcount
    buf,       \* chan: hchan.buf, slot -> value, 0 for an empty slot
    closed,    \* chan: hchan.closed
    sendx,     \* chan: hchan.sendx
    recvx,     \* chan: hchan.recvx
    recvq,     \* chan: hchan.recvq, the parked receivers
    sendq,     \* chan: hchan.sendq, the parked senders
    hpc,       \* chan: where each goroutine stands
    hval,      \* chan: ep, the value a sender sends
    hblock,    \* chan: the block argument of the call
    gparam,    \* chan: gp.param, NoOne (nil) or 1 (the sudog)
    hres,      \* chan: how the goroutine's last call ended
    hgot,      \* chan: the value the goroutine's last receive got
    runq,      \* sched: p.runq of every P, the number of goroutines queued
    runqsize,  \* sched: sched.runqsize, the length of the global run queue
    schedtick, \* sched: p.schedtick of the scheduling P
    ppc,       \* sched: where the scheduling P stands in schedule / findrunnable
    gpsrc,     \* sched: where the gp that schedule selected came from
    globSeen,  \* sched: what findrunnable last found sched.runqsize to be, or "unseen"
    channels,  \* fanIn: the arguments of the call, forwarder -> input channel
    incap,     \* fanIn: capacity of every input channel
    inbuf,     \* fanIn: the values buffered in every input channel
    inclosed,  \* fanIn: whether the input channel has been closed
    sentIn,    \* fanIn: how many values have been sent on the inputs (value k is the k-th)
    fipc,      \* fanIn: where the fanIn call stands
    fwpc,      \* fanIn: where each forwarding goroutine stands
    fwn,       \* fanIn: n, the value a forwarder has received and not yet sent
    fwg,       \* fanIn: wg, the WaitGroup's count
    clpc,      \* fanIn: where the closing goroutine stands
    resClosed, \* fanIn: how often close(result) has been carried out
    conspc,    \* fanIn: where the consumer of result stands
    delivered, \* fanIn: how often the consumer has received each value from result
    numWorkers, \* workerPool: the numWorkers argument of the call
    taskcap,   \* workerPool: capacity of the tasks channel
    taskbuf,   \* workerPool: the tasks buffered in the tasks channel
    tasksClosed, \* workerPool: whether the tasks channel has been closed
    tasksSent, \* workerPool: how many tasks have been sent on tasks (task k is the k-th)
    wppc,      \* workerPool: where the workerPool call stands
    wkpc,      \* workerPool: where each worker goroutine stands
    wktask,    \* workerPool: the task a worker has received and not yet answered
    pwg,       \* workerPool: wg, the WaitGroup's count
    pclpc,     \* workerPool: where the closing goroutine stands
    resultsClosed, \* workerPool: how often close(results) has been carried out
    rescap,    \* workerPool: capacity of the results channel
    resq,      \* workerPool: how many results are buffered in the results channel
    rconspc,   \* workerPool: where the consumer of results stands
    produced,  \* workerPool: how many results have been sent on results for each task
    tasks,     \* Scheduler: s.tasks, id -> its timer, NoOne for no entry
    timerId,   \* Scheduler: the id each timer was registered under, NoOne while not made
    timerAt,   \* Scheduler: each timer: "none", "armed", "stopped", "running" or "finished"
    cancelRet, \* Scheduler: what the last CancelTask call returned, <<id, result>>
    credit,    \* credit: committed user_credits, user_id -> <<credit>>, NoRow for no row
    transfers, \* credit: committed credit_transfers rows
    txpc,      \* credit: where the TransferCredit call stands
    txargs,    \* credit: <<fromID, toID, amount>> of the call
    txCredit,  \* credit: user_credits as the open transaction sees it
    txRows,    \* credit: credit_transfers rows the open transaction has inserted
    txret,     \* credit: what the last call returned
    txBefore,  \* credit: <<credit, transfers>> committed when the last call began
    stmt,      \* repo: the prepared statements: "nil", "open" or "closed"
    repopc,    \* repo: where NewUserRepo / Close stands
    closeCalls, \* repo: how many Close calls have been made
    closedNow, \* repo: the statements the running or last Close call has closed
    closeRet,  \* repo: what the last Close call returned
    execRet,   \* repo: <<statement, error>> of the last Create / GetByID / Update / Delete
    sessKeys,  \* session: the session ids whose key session:<id> is stored in Redis
    issued,    \* session: how many session ids uuid.New() has given out
    loggedOut, \* session: the session ids a POST /logout has been answered for
    loginStatus, \* session: the status of the last POST /login
    pfpc,      \* session: where each GET /profile request stands
    pfsid,     \* session: the session_id cookie of the request, NoCookie for none
    pfLate,    \* session: whether the request came after a logout with its session id
    pfStatus,  \* session: the status the request was answered with
    fs,        \* fileutil: the file system, path -> <<content>>, NoFile for no such file
    mpc,       \* fileutil: where main stands: "start", "parsed" or "exit"
    cmdFlags,  \* fileutil: the CommandFlags parseFlags returned
    printed,   \* fileutil: what main printed: <<kind, operation>>
    called,    \* fileutil: the file operation main called, "none" for none
    arfn,      \* arith: the function called: "none", "calcRemainderAndMod" or "doubleEven"
    arargs,    \* arith: its arguments
    arret,     \* arith: what it returned, the error as "nil" or "error"
    items,     \* Stack: s.items
    stackOp,   \* Stack: the last call: "none", "Push" or "Pop"
    stackRet,  \* Stack: what the last Pop returned: <<item, ok>>
    itemsWas,  \* Stack: s.items before the last call
    lfpc,      \* processLargeFile: where the caller stands: "idle", "collect" or "returned"
    lfret,     \* processLargeFile: the error returned, "nil" or "err"
    chunksLeft, \* processLargeFile: chunks of the file not read yet
    fileClosed, \* processLargeFile: the deferred file.Close() has run
    jobs,      \* processLargeFile: chunks in the jobs channel
    jobsClosed, \* processLargeFile: close(jobs) has run
    results,   \* processLargeFile: the results channel, a sequence of "nil" and "err"
    idleWorkers, \* processLargeFile: workers standing at range jobs
    sendingNil, \* processLargeFile: workers standing at results <- err with a nil err
    sendingErr, \* processLargeFile: workers standing at results <- err with an error
    rdpc,      \* processLargeFile: where the reading goroutine stands: "none", "read", "send", "fail", "close" or "done"
    collected, \* processLargeFile: i, the results the caller has received
    firstErr,  \* processLargeFile: firstErr
    nread,     \* processLargeFile: chunks read from the file
    nprocessed, \* processLargeFile: chunks processChunk has completed
    typeCache, \* getStructInfo: typeCache, type -> *structInfo (NoInfo for no entry)
    rwReaders, \* getStructInfo: goroutines holding cacheMutex.RLock
    rwWriter,  \* getStructInfo: the goroutine holding cacheMutex.Lock, NoOne for none
    sipc,      \* getStructInfo: where each call stands
    sitype,    \* getStructInfo: its argument t
    siinfo,    \* getStructInfo: its local info
    siret,     \* getStructInfo: what it returned
    allocs,    \* getStructInfo: structInfo values allocated so far
    stores,    \* getStructInfo: type -> number of writes of typeCache[t]
    infoCalls  \* getStructInfo: calls made so far

vTransfer == <<mu, tpc, tplan>>
vOnce == <<instance, onceDone, onceM, initCount, gpc, gret>>
vCounter == <<counter, cmu, wg, cmode, cpc, ctmp, mainpc, spawned>>

vLock == <<lockKey, uuidNext, dpc, dname, dval, dres, relRes, ranFn, lostKey>>
vCache == <<cache, kpc, kid, kres, kasked>>
vReq == <<ch, ctxDone, wpc, rpc, rres>>
vPool == <<pclosed, quitClosed, taskQueue, totalTasks, failedTasks, handed, now,
          callbacks,
           submits, spc, stask, sctx, sres>>
vChan == <<hmade, dataqsiz, qcount, buf, closed, sendx, recvx, recvq, sendq,
           hpc, hval, hblock, gparam, hres, hgot>>

vSched == <<runq, runqsize, schedtick, ppc, gpsrc, globSeen>>

vFanIn == <<channels, incap, inbuf, inclosed, sentIn, fipc, fwpc, fwn, fwg,
             clpc, resClosed, conspc, delivered>>

vWorkerPool == <<numWorkers, taskcap, taskbuf, tasksClosed, tasksSent, wppc,
                  wkpc, wktask, pwg, pclpc, resultsClosed, rescap, resq,
                  rconspc, produced>>

vScheduler == <<tasks, timerId, timerAt, cancelRet>>

vCredit == <<credit, transfers, txpc, txargs, txCredit, txRows, txret,
              txBefore>>

vRepo == <<stmt, repopc, closeCalls, closedNow, closeRet, execRet>>

vSession == <<sessKeys, issued, loggedOut, loginStatus, pfpc, pfsid, pfLate,
               pfStatus>>

vFileutil == <<fs, mpc, cmdFlags, printed, called>>

vArith == <<arfn, arargs, arret>>

vStack == <<items, stackOp, stackRet, itemsWas>>

vLargeFile == <<lfpc, lfret, chunksLeft, fileClosed, jobs, jobsClosed,
                 results, idleWorkers, sendingNil, sendingErr, rdpc,
                 collected, firstErr, nread, nprocessed>>

vStructInfo == <<typeCache, rwReaders, rwWriter, sipc, sitype, siinfo, siret,
                  allocs, stores, infoCalls>>

vars == <<vTransfer, vOnce, vCounter, vLock, vCache, vReq, vPool, vChan,
          vSched, vFanIn, vWorkerPool, vScheduler, vCredit, vRepo, vSession,
          vFileutil, vArith, vStack, vLargeFile, vStructInfo>>

\* What the steps of one example leave alone: the other examples' variables.
TransferFrame ==
    UNCHANGED <<vOnce, vCounter, vLock, vCache, vReq, vPool, vChan, vSched,
                vFanIn, vWorkerPool, vScheduler, vCredit, vRepo, vSession,
                vFileutil, vArith, vStack, vLargeFile, vStructInfo>>
OnceFrame ==
    UNCHANGED <<vTransfer, vCounter, vLock, vCache, vReq, vPool, vChan,
                vSched, vFanIn, vWorkerPool, vScheduler, vCredit, vRepo,
                vSession, vFileutil, vArith, vStack, vLargeFile, vStructInfo>>
CounterFrame ==
    UNCHANGED <<vTransfer, vOnce, vLock, vCache, vReq, vPool, vChan, vSched,
                vFanIn, vWorkerPool, vScheduler, vCredit, vRepo, vSession,
                vFileutil, vArith, vStack, vLargeFile, vStructInfo>>
LockFrame ==
    UNCHANGED <<vTransfer, vOnce, vCounter, vCache, vReq, vPool, vChan,
                vSched, vFanIn, vWorkerPool, vScheduler, vCredit, vRepo,
                vSession, vFileutil, vArith, vStack, vLargeFile, vStructInfo>>
CacheFrame ==
    UNCHANGED <<vTransfer, vOnce, vCounter, vLock, vReq, vPool, vChan, vSched,
                vFanIn, vWorkerPool, vScheduler, vCredit, vRepo, vSession,
                vFileutil, vArith, vStack, vLargeFile, vStructInfo>>
ReqFrame ==
    UNCHANGED <<vTransfer, vOnce, vCounter, vLock, vCache, vPool, vChan,
                vSched, vFanIn, vWorkerPool, vScheduler, vCredit, vRepo,
                vSession, vFileutil, vArith, vStack, vLargeFile, vStructInfo>>
PoolFrame ==
    UNCHANGED <<vTransfer, vOnce, vCounter, vLock, vCache, vReq, vChan,
                vSched, vFanIn, vWorkerPool, vScheduler, vCredit, vRepo,
                vSession, vFileutil, vArith, vStack, vLargeFile, vStructInfo>>
ChanFrame ==
    UNCHANGED <<vTransfer, vOnce, vCounter, vLock, vCache, vReq, vPool,
                vSched, vFanIn, vWorkerPool, vScheduler, vCredit, vRepo,
                vSession, vFileutil, vArith, vStack, vLargeFile, vStructInfo>>
SchedFrame ==
    UNCHANGED <<vTransfer, vOnce, vCounter, vLock, vCache, vReq, vPool, vChan,
                vFanIn, vWorkerPool, vScheduler, vCredit, vRepo, vSession,
                vFileutil, vArith, vStack, vLargeFile, vStructInfo>>
FanInFrame ==
    UNCHANGED <<vTransfer, vOnce, vCounter, vLock, vCache, vReq, vPool, vChan,
                vSched, vWorkerPool, vScheduler, vCredit, vRepo, vSession,
                vFileutil, vArith, vStack, vLargeFile, vStructInfo>>
WorkerPoolFrame ==
    UNCHANGED <<vTransfer, vOnce, vCounter, vLock, vCache, vReq, vPool, vChan,
                vSched, vFanIn, vScheduler, vCredit, vRepo, vSession,
                vFileutil, vArith, vStack, vLargeFile, vStructInfo>>
SchedulerFrame ==
    UNCHANGED <<vTransfer, vOnce, vCounter, vLock, vCache, vReq, vPool, vChan,
                vSched, vFanIn, vWorkerPool, vCredit, vRepo, vSession,
                vFileutil, vArith, vStack, vLargeFile, vStructInfo>>
CreditFrame ==
    UNCHANGED <<vTransfer, vOnce, vCounter, vLock, vCache, vReq, vPool, vChan,
                vSched, vFanIn, vWorkerPool, vScheduler, vRepo, vSession,
                vFileutil, vArith, vStack, vLargeFile, vStructInfo>>
RepoFrame ==
    UNCHANGED <<vTransfer, vOnce, vCounter, vLock, vCache, vReq, vPool, vChan,
                vSched, vFanIn, vWorkerPool, vScheduler, vCredit, vSession,
                vFileutil, vArith, vStack, vLargeFile, vStructInfo>>
SessionFrame ==
    UNCHANGED <<vTransfer, vOnce, vCounter, vLock, vCache, vReq, vPool, vChan,
                vSched, vFanIn, vWorkerPool, vScheduler, vCredit, vRepo,
                vFileutil, vArith, vStack, vLargeFile, vStructInfo>>
FileutilFrame ==
    UNCHANGED <<vTransfer, vOnce, vCounter, vLock, vCache, vReq, vPool, vChan,
                vSched, vFanIn, vWorkerPool, vScheduler, vCredit, vRepo,
                vSession, vArith, vStack, vLargeFile, vStructInfo>>
ArithFrame ==
    UNCHANGED <<vTransfer, vOnce, vCounter, vLock, vCache, vReq, vPool, vChan,
                vSched, vFanIn, vWorkerPool, vScheduler, vCredit, vRepo,
                vSession, vFileutil, vStack, vLargeFile, vStructInfo>>
StackFrame ==
    UNCHANGED <<vTransfer, vOnce, vCounter, vLock, vCache, vReq, vPool, vChan,
                vSched, vFanIn, vWorkerPool, vScheduler, vCredit, vRepo,
                vSession, vFileutil, vArith, vLargeFile, vStructInfo>>
LargeFileFrame ==
    UNCHANGED <<vTransfer, vOnce, vCounter, vLock, vCache, vReq, vPool, vChan,
                vSched, vFanIn, vWorkerPool, vScheduler, vCredit, vRepo,
                vSession, vFileutil, vArith, vStack, vStructInfo>>
StructInfoFrame ==
    UNCHANGED <<vTransfer, vOnce, vCounter, vLock, vCache, vReq, vPool, vChan,
                vSched, vFanIn, vWorkerPool, vScheduler, vCredit, vRepo,
                vSession, vFileutil, vArith, vStack, vLargeFile>>

\* =================================================================
\* transferMoney: nested account locks
\* =================================================================

\* Account.id: the accounts are told apart by their id.
AccountId(a) == a

\* m.Lock() as if the mutex were a private copy: never waits.
MutexLockCopy(m, c) == mu' = [mu EXCEPT ![m] = c]

\* m.Lock(): waits until the mutex is free, then holds it.  A sync.Mutex is
\* not reentrant: the holder itself waits as well.
MutexLock(m, c) == mu[m] = NoOne /\ mu' = [mu EXCEPT ![m] = c]

\* m.Unlock()
MutexUnlock(m) == mu' = [mu EXCEPT ![m] = NoOne]

\* The naive version: from.mu first, then to.mu.
NaivePlan(from, to) == <<from, to>>

\* The ordered version: the branch on from.id < to.id.
OrderedPlan(from, to) ==
    IF AccountId(from) < AccountId(to) THEN <<from, to>> ELSE <<to, from>>

TransferInit ==
    /\ mu = [a \in Accounts |-> NoOne]
    /\ tpc = [c \in Calls |-> "idle"]
    /\ tplan = [c \in Calls |-> <<1, 1>>]

\* A goroutine enters the naive transferMoney(from, to, amount).
NaiveCall(c, from, to) ==
    /\ tpc[c] = "idle"
    /\ tplan' = [tplan EXCEPT ![c] = NaivePlan(from, to)]
    /\ tpc' = [tpc EXCEPT ![c] = "lock1"]
    /\ UNCHANGED mu
    /\ TransferFrame

\* A goroutine enters the ordered transferMoney(from, to, amount).
OrderedCall(c, from, to) ==
    /\ tpc[c] = "idle"
    /\ tplan' = [tplan EXCEPT ![c] = OrderedPlan(from, to)]
    /\ tpc' = [tpc EXCEPT ![c] = "lock1"]
    /\ UNCHANGED mu
    /\ TransferFrame

\* The first Lock() of the call.
LockFirst(c) ==
    /\ tpc[c] = "lock1"
    /\ MutexLock(tplan[c][1], c)
    /\ tpc' = [tpc EXCEPT ![c] = "lock2"]
    /\ UNCHANGED tplan
    /\ TransferFrame

\* The second, nested Lock() of the call.
LockSecond(c) ==
    /\ tpc[c] = "lock2"
    /\ MutexLock(tplan[c][2], c)
    /\ tpc' = [tpc EXCEPT ![c] = "body"]
    /\ UNCHANGED tplan
    /\ TransferFrame

\* The transfer itself, both mutexes held.
TransferBody(c) ==
    /\ tpc[c] = "body"
    /\ tpc' = [tpc EXCEPT ![c] = "unlock2"]
    /\ UNCHANGED <<mu, tplan>>
    /\ TransferFrame

\* The deferred Unlock() calls run in reverse order: the second lock first.
UnlockSecond(c) ==
    /\ tpc[c] = "unlock2"
    /\ MutexUnlock(tplan[c][2])
    /\ tpc' = [tpc EXCEPT ![c] = "unlock1"]
    /\ UNCHANGED tplan
    /\ TransferFrame

UnlockFirst(c) ==
    /\ tpc[c] = "unlock1"
    /\ MutexUnlock(tplan[c][1])
    /\ tpc' = [tpc EXCEPT ![c] = "done"]
    /\ UNCHANGED tplan
    /\ TransferFrame

TransferStep(c) ==
    \/ LockFirst(c)
    \/ LockSecond(c)
    \/ TransferBody(c)
    \/ UnlockSecond(c)
    \/ UnlockFirst(c)

\* The mutex a call is waiting for (it stands before a Lock() of a held mutex).
Wanted(c) == IF tpc[c] = "lock1" THEN tplan[c][1] ELSE tplan[c][2]
Waiting(c) == tpc[c] \in {"lock1", "lock2"} /\ mu[Wanted(c)] # NoOne

\* A deadlock: a non-empty set of calls each waiting for a mutex that a call
\* of the set holds.
Deadlocked(S) == S # {} /\ \A c \in S : Waiting(c) /\ mu[Wanted(c)] \in S

\* =================================================================
\* GetInstance / GetDatabase: the sync.Once singleton
\* =================================================================

OnceInit ==
    /\ instance = NoOne
    /\ onceDone = 0
    /\ onceM = NoOne
    /\ initCount = 0
    /\ gpc = [g \in Getters |-> "idle"]
    /\ gret = [g \in Getters |-> NoOne]

\* A goroutine calls GetInstance() (again, after an earlier call returned).
GetInstanceCall(g) ==
    /\ gpc[g] \in {"idle", "done"}
    /\ gpc' = [gpc EXCEPT ![g] = "fast"]
    /\ UNCHANGED <<instance, onceDone, onceM, initCount, gret>>
    /\ OnceFrame

\* once.Do, fast path: done is loaded without the lock.
OnceFast(g) ==
    /\ gpc[g] = "fast"
    /\ gpc' = [gpc EXCEPT ![g] = IF onceDone = 1 THEN "ret" ELSE "lock"]
    /\ UNCHANGED <<instance, onceDone, onceM, initCount, gret>>
    /\ OnceFrame

\* once.Do, slow path: o.m.Lock().
OnceLock(g) ==
    /\ gpc[g] = "lock"
    /\ onceM = NoOne
    /\ onceM' = g
    /\ gpc' = [gpc EXCEPT ![g] = "check"]
    /\ UNCHANGED <<instance, onceDone, initCount, gret>>
    /\ OnceFrame

\* The slow path without its second look at done: whoever got past the fast
\* path runs the function.
OnceCheckNoRecheck(g) ==
    /\ gpc[g] = "check"
    /\ gpc' = [gpc EXCEPT ![g] = "init"]
    /\ UNCHANGED <<instance, onceDone, onceM, initCount, gret>>
    /\ OnceFrame

\* once.Do, slow path: done is looked at again under the lock.
OnceCheck(g) ==
    /\ gpc[g] = "check"
    /\ gpc' = [gpc EXCEPT ![g] = IF onceDone = 0 THEN "init" ELSE "unlock"]
    /\ UNCHANGED <<instance, onceDone, onceM, initCount, gret>>
    /\ OnceFrame

\* The function given to once.Do: instance = &Singleton{...}, a fresh pointer.
InitFn(g) ==
    /\ gpc[g] = "init"
    /\ instance' = initCount + 1
    /\ initCount' = initCount + 1
    /\ gpc' = [gpc EXCEPT ![g] = "store"]
    /\ UNCHANGED <<onceDone, onceM, gret>>
    /\ OnceFrame

\* once.Do: done is stored after the function has returned.
OnceStore(g) ==
    /\ gpc[g] = "store"
    /\ onceDone' = 1
    /\ gpc' = [gpc EXCEPT ![g] = "unlock"]
    /\ UNCHANGED <<instance, onceM, initCount, gret>>
    /\ OnceFrame

\* once.Do: the deferred o.m.Unlock().
OnceUnlock(g) ==
    /\ gpc[g] = "unlock"
    /\ onceM' = NoOne
    /\ gpc' = [gpc EXCEPT ![g] = "ret"]
    /\ UNCHANGED <<instance, onceDone, initCount, gret>>
    /\ OnceFrame

\* return instance
GetInstanceReturn(g) ==
    /\ gpc[g] = "ret"
    /\ gret' = [gret EXCEPT ![g] = instance]
    /\ gpc' = [gpc EXCEPT ![g] = "done"]
    /\ UNCHANGED <<instance, onceDone, onceM, initCount>>
    /\ OnceFrame

\* =================================================================
\* The synchronised counter: N goroutines, one increment each
\* =================================================================

CounterInit ==
    /\ counter = 0
    /\ cmu = NoOne
    /\ wg = 0
    /\ cmode = "unset"
    /\ cpc = [w \in Workers |-> "unborn"]
    /\ ctmp = [w \in Workers |-> 0]
    /\ mainpc = "choose"
    /\ spawned = 0

\* The run uses the mutex-protected increment or the atomic one.
MainChoose(m) ==
    /\ mainpc = "choose"
    /\ cmode' = m
    /\ mainpc' = "spawn"
    /\ UNCHANGED <<counter, cmu, wg, cpc, ctmp, spawned>>
    /\ CounterFrame

\* One round of the loop: wg.Add(1); go func() {...}()
MainSpawn ==
    /\ mainpc = "spawn"
    /\ spawned < NWorkers
    /\ wg' = wg + 1
    /\ spawned' = spawned + 1
    /\ cpc' = [cpc EXCEPT ![spawned + 1] = "start"]
    /\ UNCHANGED <<counter, cmu, cmode, ctmp, mainpc>>
    /\ CounterFrame

\* wg.Wait(): returns when the count is zero.
MainWait ==
    /\ mainpc = "spawn"
    /\ spawned = NWorkers
    /\ wg = 0
    /\ mainpc' = "after"
    /\ UNCHANGED <<counter, cmu, wg, cmode, cpc, ctmp, spawned>>
    /\ CounterFrame

\* The unsynchronised increment: nothing is locked.
CounterLockNone(w) ==
    /\ cpc[w] = "start"
    /\ cmode = "mutex"
    /\ cpc' = [cpc EXCEPT ![w] = "load"]
    /\ UNCHANGED <<counter, cmu, wg, cmode, ctmp, mainpc, spawned>>
    /\ CounterFrame

\* increment(): mu.Lock()
CounterLock(w) ==
    /\ cpc[w] = "start"
    /\ cmode = "mutex"
    /\ cmu = NoOne
    /\ cmu' = w
    /\ cpc' = [cpc EXCEPT ![w] = "load"]
    /\ UNCHANGED <<counter, wg, cmode, ctmp, mainpc, spawned>>
    /\ CounterFrame

\* counter++, first half: the value is read.
CounterLoad(w) ==
    /\ cpc[w] = "load"
    /\ ctmp' = [ctmp EXCEPT ![w] = counter]
    /\ cpc' = [cpc EXCEPT ![w] = "store"]
    /\ UNCHANGED <<counter, cmu, wg, cmode, mainpc, spawned>>
    /\ CounterFrame

\* counter++, second half: the value plus one is written.
CounterStore(w) ==
    /\ cpc[w] = "store"
    /\ counter' = ctmp[w] + 1
    /\ cpc' = [cpc EXCEPT ![w] = "unlock"]
    /\ UNCHANGED <<cmu, wg, cmode, ctmp, mainpc, spawned>>
    /\ CounterFrame

\* increment(): mu.Unlock()
CounterUnlock(w) ==
    /\ cpc[w] = "unlock"
    /\ cmu' = NoOne
    /\ cpc' = [cpc EXCEPT ![w] = "wgdone"]
    /\ UNCHANGED <<counter, wg, cmode, ctmp, mainpc, spawned>>
    /\ CounterFrame

\* atomic.AddInt64(&counter, 1): one indivisible step.
AtomicAdd(w) ==
    /\ cpc[w] = "start"
    /\ cmode = "atomic"
    /\ counter' = counter + 1
    /\ cpc' = [cpc EXCEPT ![w] = "wgdone"]
    /\ UNCHANGED <<cmu, wg, cmode, ctmp, mainpc, spawned>>
    /\ CounterFrame

\* wg.Done()
WgDone(w) ==
    /\ cpc[w] = "wgdone"
    /\ wg' = wg - 1
    /\ cpc' = [cpc EXCEPT ![w] = "exit"]
    /\ UNCHANGED <<counter, cmu, cmode, ctmp, mainpc, spawned>>
    /\ CounterFrame

\* =================================================================
\* acquireLock / releaseLock / doWithLock: the Redis lock
\* =================================================================

\* A plain SET: the key is written whatever it holds.
RedisSet(cur, v) == <<v, TRUE>>

\* SET key value NX: <<the key afterwards, success>>.
RedisSetNX(cur, v) == IF cur = NoOne THEN <<v, TRUE>> ELSE <<cur, FALSE>>

\* A plain DEL: the key goes whoever set it.
LuaDelAlways(cur, v) == <<NoOne, IF cur # NoOne THEN 1 ELSE 0>>

\* The Lua script of releaseLock: <<the key afterwards, the script's result>>.
LuaRelease(cur, v) == IF cur = v THEN <<NoOne, 1>> ELSE <<cur, 0>>

LockInit ==
    /\ lockKey = [n \in LockNames |-> NoOne]
    /\ uuidNext = 1
    /\ dpc = [c \in Clients |-> "idle"]
    /\ dname = [c \in Clients |-> 1]
    /\ dval = [c \in Clients |-> NoOne]
    /\ dres = [c \in Clients |-> "none"]
    /\ relRes = [c \in Clients |-> FALSE]
    /\ ranFn = [c \in Clients |-> FALSE]
    /\ lostKey = [c \in Clients |-> FALSE]

\* doWithLock(ctx, rdb, n, fn) is entered: lockValue := uuid.New().String()
DoWithLockCall(c, n) ==
    /\ dpc[c] \in {"idle", "done"}
    /\ uuidNext <= MaxLockCalls
    /\ dname' = [dname EXCEPT ![c] = n]
    /\ dval' = [dval EXCEPT ![c] = uuidNext]
    /\ uuidNext' = uuidNext + 1
    /\ dres' = [dres EXCEPT ![c] = "none"]
    /\ ranFn' = [ranFn EXCEPT ![c] = FALSE]
    /\ lostKey' = [lostKey EXCEPT ![c] = FALSE]
    /\ dpc' = [dpc EXCEPT ![c] = "acquire"]
    /\ UNCHANGED <<lockKey, relRes>>
    /\ LockFrame

\* acquireLock answers: SetNX ran on the server; fn starts, or the call
\* returns the "cannot get the lock" error.
Acquire(c) ==
    LET r == RedisSetNX(lockKey[dname[c]], dval[c]) IN
    /\ dpc[c] = "acquire"
    /\ lockKey' = [lockKey EXCEPT ![dname[c]] = r[1]]
    /\ dpc' = [dpc EXCEPT ![c] = IF r[2] THEN "fn" ELSE "done"]
    /\ dres' = [dres EXCEPT ![c] = IF r[2] THEN "none" ELSE "lockerr"]
    /\ ranFn' = [ranFn EXCEPT ![c] = r[2]]
    /\ UNCHANGED <<uuidNext, dname, dval, relRes, lostKey>>
    /\ LockFrame

\* acquireLock returns an error (the command did not reach the server).
AcquireErr(c) ==
    /\ dpc[c] = "acquire"
    /\ dpc' = [dpc EXCEPT ![c] = "done"]
    /\ dres' = [dres EXCEPT ![c] = "err"]
    /\ UNCHANGED <<lockKey, uuidNext, dname, dval, relRes, ranFn, lostKey>>
    /\ LockFrame

\* fn returns, with an error or without; the deferred releaseLock is next.
FnReturn(c, r) ==
    /\ dpc[c] = "fn"
    /\ dpc' = [dpc EXCEPT ![c] = "release"]
    /\ dres' = [dres EXCEPT ![c] = r]
    /\ UNCHANGED <<lockKey, uuidNext, dname, dval, relRes, ranFn, lostKey>>
    /\ LockFrame

\* releaseLock: the script runs on the server as one step, result == 1 is
\* returned.
Release(c) ==
    LET r == LuaRelease(lockKey[dname[c]], dval[c]) IN
    /\ dpc[c] = "release"
    /\ lockKey' = [lockKey EXCEPT ![dname[c]] = r[1]]
    /\ relRes' = [relRes EXCEPT ![c] = (r[2] = 1)]
    /\ dpc' = [dpc EXCEPT ![c] = "done"]
    /\ UNCHANGED <<uuidNext, dname, dval, dres, ranFn, lostKey>>
    /\ LockFrame

\* releaseLock: Eval returns an error (the script did not run): false, err.
ReleaseErr(c) ==
    /\ dpc[c] = "release"
    /\ relRes' = [relRes EXCEPT ![c] = FALSE]
    /\ dpc' = [dpc EXCEPT ![c] = "done"]
    /\ UNCHANGED <<lockKey, uuidNext, dname, dval, dres, ranFn, lostKey>>
    /\ LockFrame

\* The expiration given to SetNX passes: Redis drops the key.
LockExpire(n) ==
    /\ lockKey[n] # NoOne
    /\ lockKey' = [lockKey EXCEPT ![n] = NoOne]
    /\ lostKey' = [c \in Clients |->
                     lostKey[c] \/ (dpc[c] = "fn" /\ dname[c] = n
                                       /\ dval[c] = lockKey[n])]
    /\ UNCHANGED <<uuidNext, dpc, dname, dval, dres, relRes, ranFn>>
    /\ LockFrame

InFn(c, n) == dpc[c] = "fn" /\ dname[c] = n

\* =================================================================
\* GetUserWithCache: cache-penetration protection
\* =================================================================

\* A lookup that takes only a non-empty value for a hit.
CacheHitNonEmpty(v) == v = "data"

\* rdb.Get(...).Result() gives err == nil for every stored value, the empty
\* string included; redis.Nil only for an absent key.
CacheHit(v) == v # "absent"

\* json.Unmarshal of the stored value into a zero User, its error dropped:
\* the user from stored data, the zero User from the empty string.
Unmarshal(v) == IF v = "data" THEN "user" ELSE "zero"

CacheInit ==
    /\ cache = [i \in UserIds |-> "absent"]
    /\ kpc = [c \in Readers |-> "idle"]
    /\ kid = [c \in Readers |-> 1]
    /\ kres = [c \in Readers |-> <<"none", "none">>]
    /\ kasked = [c \in Readers |-> FALSE]

\* GetUserWithCache(ctx, rdb, id) is entered.
GetUserCall(c, i) ==
    /\ kpc[c] \in {"idle", "done"}
    /\ kid' = [kid EXCEPT ![c] = i]
    /\ kres' = [kres EXCEPT ![c] = <<"none", "none">>]
    /\ kasked' = [kasked EXCEPT ![c] = FALSE]
    /\ kpc' = [kpc EXCEPT ![c] = "get"]
    /\ UNCHANGED cache
    /\ CacheFrame

\* rdb.Get answers: a hit returns (user, nil); redis.Nil goes on to the
\* database.
CacheGet(c) ==
    /\ kpc[c] = "get"
    /\ IF CacheHit(cache[kid[c]])
         THEN /\ kres' = [kres EXCEPT ![c] = <<Unmarshal(cache[kid[c]]), "nil">>]
              /\ kpc' = [kpc EXCEPT ![c] = "done"]
         ELSE /\ kpc' = [kpc EXCEPT ![c] = "query"]
              /\ UNCHANGED kres
    /\ UNCHANGED <<cache, kid, kasked>>
    /\ CacheFrame

\* rdb.Get fails with another error: (User{}, err).
CacheGetErr(c) ==
    /\ kpc[c] = "get"
    /\ kres' = [kres EXCEPT ![c] = <<"zero", "rediserr">>]
    /\ kpc' = [kpc EXCEPT ![c] = "done"]
    /\ UNCHANGED <<cache, kid, kasked>>
    /\ CacheFrame

\* queryUserFromDB(id) returns: the user, or an error (not found).
QueryDB(c, found) ==
    /\ kpc[c] = "query"
    /\ kasked' = [kasked EXCEPT ![c] = TRUE]
    /\ kpc' = [kpc EXCEPT ![c] = IF found THEN "setdata" ELSE "setempty"]
    /\ UNCHANGED <<cache, kid, kres>>
    /\ CacheFrame

\* rdb.Set(ctx, cacheKey, "", 5*time.Minute); return User{}, err
SetEmpty(c) ==
    /\ kpc[c] = "setempty"
    /\ cache' = [cache EXCEPT ![kid[c]] = "empty"]
    /\ kres' = [kres EXCEPT ![c] = <<"zero", "dberr">>]
    /\ kpc' = [kpc EXCEPT ![c] = "done"]
    /\ UNCHANGED <<kid, kasked>>
    /\ CacheFrame

\* rdb.Set(ctx, cacheKey, userData, 30*time.Minute); return user, nil
SetData(c) ==
    /\ kpc[c] = "setdata"
    /\ cache' = [cache EXCEPT ![kid[c]] = "data"]
    /\ kres' = [kres EXCEPT ![c] = <<"user", "nil">>]
    /\ kpc' = [kpc EXCEPT ![c] = "done"]
    /\ UNCHANGED <<kid, kasked>>
    /\ CacheFrame

\* The entry's expiration passes: Redis drops the key.
CacheExpire(i) ==
    /\ cache[i] # "absent"
    /\ cache' = [cache EXCEPT ![i] = "absent"]
    /\ UNCHANGED <<kpc, kid, kres, kasked>>
    /\ CacheFrame

\* =================================================================
\* processRequest(ctx): the worker goroutine and the caller's select
\* =================================================================

\* make(chan Result): no buffer.
ChanCapUnbuffered == 0

\* make(chan Result, 1)
ChanCap == 1

ReqInit ==
    /\ ch = [r \in Reqs |-> <<>>]
    /\ ctxDone = [r \in Reqs |-> FALSE]
    /\ wpc = [r \in Reqs |-> "unborn"]
    /\ rpc = [r \in Reqs |-> "idle"]
    /\ rres = [r \in Reqs |-> "none"]

\* processRequest(ctx) is entered: the channel is made, the worker started.
ProcessRequestCall(r) ==
    /\ rpc[r] = "idle"
    /\ wpc' = [wpc EXCEPT ![r] = "work"]
    /\ rpc' = [rpc EXCEPT ![r] = "select"]
    /\ UNCHANGED <<ch, ctxDone, rres>>
    /\ ReqFrame

\* The caller's ctx is cancelled (or its deadline passes), at any time.
CtxCancel(r) ==
    /\ ~ctxDone[r]
    /\ ctxDone' = [ctxDone EXCEPT ![r] = TRUE]
    /\ UNCHANGED <<ch, wpc, rpc, rres>>
    /\ ReqFrame

\* worker: result := doWork()
DoWork(r) ==
    /\ wpc[r] = "work"
    /\ wpc' = [wpc EXCEPT ![r] = "select"]
    /\ UNCHANGED <<ch, ctxDone, rpc, rres>>
    /\ ReqFrame

\* worker: case ch <- result, possible while the buffer has room.
WorkerSend(r) ==
    /\ wpc[r] = "select"
    /\ Len(ch[r]) < ChanCap
    /\ ch' = [ch EXCEPT ![r] = Append(@, "result")]
    /\ wpc' = [wpc EXCEPT ![r] = "exit"]
    /\ UNCHANGED <<ctxDone, rpc, rres>>
    /\ ReqFrame

\* worker: case <-ctx.Done()
WorkerCtxDone(r) ==
    /\ wpc[r] = "select"
    /\ ctxDone[r]
    /\ wpc' = [wpc EXCEPT ![r] = "exit"]
    /\ UNCHANGED <<ch, ctxDone, rpc, rres>>
    /\ ReqFrame

\* caller: case result := <-ch: return processResult(result)
CallerRecv(r) ==
    /\ rpc[r] = "select"
    /\ Len(ch[r]) > 0
    /\ ch' = [ch EXCEPT ![r] = Tail(@)]
    /\ rres' = [rres EXCEPT ![r] = "result"]
    /\ rpc' = [rpc EXCEPT ![r] = "done"]
    /\ UNCHANGED <<ctxDone, wpc>>
    /\ ReqFrame

\* caller: case <-ctx.Done(): return ctx.Err()
CallerCtxDone(r) ==
    /\ rpc[r] = "select"
    /\ ctxDone[r]
    /\ rres' = [rres EXCEPT ![r] = "ctxerr"]
    /\ rpc' = [rpc EXCEPT ![r] = "done"]
    /\ UNCHANGED <<ch, ctxDone, wpc>>
    /\ ReqFrame

\* caller: case <-time.After(2 * time.Second): return errors.New("timeout")
CallerTimeout(r) ==
    /\ rpc[r] = "select"
    /\ rres' = [rres EXCEPT ![r] = "timeout"]
    /\ rpc' = [rpc EXCEPT ![r] = "done"]
    /\ UNCHANGED <<ch, ctxDone, wpc>>
    /\ ReqFrame

WorkerStep(r) == DoWork(r) \/ WorkerSend(r) \/ WorkerCtxDone(r)

\* =================================================================
\* Pool: Submit, SubmitFunc, SubmitWithContext, dispatcher
\* =================================================================

\* The *Task arguments: nil, a Task with a nil Fn, and Tasks with or without
\* a Deadline and with or without a Callback.
Tasks == {"nil", "nofn", "plain", "due", "plaincb", "duecb"}

\* The readings of time.Now(): the time the pool started and a later one.
Times == {1, 2}

\* The counters of the pool a submission may touch.
PoolCounters == <<totalTasks, failedTasks, handed>>

\* The dispatcher's clock and the callbacks it started.
PoolDispatch == <<now, callbacks>>

PoolInit ==
    /\ pclosed = 0
    /\ quitClosed = FALSE
    /\ taskQueue = <<>>
    /\ totalTasks = 0
    /\ failedTasks = 0
    /\ handed = 0
    /\ now = 1
    /\ callbacks = 0
    /\ submits = 0
    /\ spc = [c \in Submitters |-> "idle"]
    /\ stask = [c \in Submitters |-> "nil"]
    /\ sctx = [c \in Submitters |-> "background"]
    /\ sres = [c \in Submitters |-> "none"]

SubmitStart(c, task, ctx) ==
    /\ spc[c] \in {"idle", "done"}
    /\ submits < MaxSubmits
    /\ submits' = submits + 1
    /\ stask' = [stask EXCEPT ![c] = task]
    /\ sctx' = [sctx EXCEPT ![c] = ctx]
    /\ sres' = [sres EXCEPT ![c] = "none"]
    /\ spc' = [spc EXCEPT ![c] = "entry"]
    /\ UNCHANGED <<pclosed, quitClosed, taskQueue, PoolCounters>>
    /\ UNCHANGED PoolDispatch
    /\ PoolFrame

\* p.Submit(task): SubmitWithContext(context.Background(), task).  The task
\* is nil, has a nil Fn, or is a task without or with a Deadline.
SubmitCall(c, task) == SubmitStart(c, task, "background")

\* p.SubmitFunc(fn): Submit(&Task{Fn: fn}), fn nil or not.
SubmitFuncCall(c, fnNil) ==
    SubmitStart(c, IF fnNil THEN "nofn" ELSE "plain", "background")

\* p.SubmitWithContext(ctx, task), ctx still live or already done.
SubmitWithContextCall(c, task, ctx) ==
    SubmitStart(c, task, ctx)

\* A submit call returns err; its task and ctx arguments go with it.
SubmitReturn(c, err) ==
    /\ sres' = [sres EXCEPT ![c] = err]
    /\ spc' = [spc EXCEPT ![c] = "done"]
    /\ stask' = [stask EXCEPT ![c] = "nil"]
    /\ sctx' = [sctx EXCEPT ![c] = "background"]

\* The entry of a submission that counts the task before it looks at
\* closed and at the task.
SubmitEntryCountFirst(c) ==
    /\ spc[c] = "entry"
    /\ totalTasks' = totalTasks + 1
    /\ IF pclosed = 1
         THEN SubmitReturn(c, "pool is closed")
         ELSE IF stask[c] \in {"nil", "nofn"}
         THEN SubmitReturn(c, "task or task function cannot be nil")
         ELSE /\ spc' = [spc EXCEPT ![c] = "select"]
              /\ UNCHANGED <<sres, stask, sctx>>
    /\ UNCHANGED <<pclosed, quitClosed, taskQueue, failedTasks, handed, submits>>
    /\ UNCHANGED PoolDispatch
    /\ PoolFrame

\* SubmitWithContext, entry: closed is loaded; a closed pool and a nil task
\* or Fn are turned down.
SubmitEntry(c) ==
    /\ spc[c] = "entry"
    /\ IF pclosed = 1
         THEN SubmitReturn(c, "pool is closed")
         ELSE IF stask[c] \in {"nil", "nofn"}
         THEN SubmitReturn(c, "task or task function cannot be nil")
         ELSE /\ spc' = [spc EXCEPT ![c] = "count"]
              /\ UNCHANGED <<sres, stask, sctx>>
    /\ UNCHANGED <<pclosed, quitClosed, taskQueue, PoolCounters, submits>>
    /\ UNCHANGED PoolDispatch
    /\ PoolFrame

\* atomic.AddUint64(&p.totalTasks, 1)
SubmitCount(c) ==
    /\ spc[c] = "count"
    /\ totalTasks' = totalTasks + 1
    /\ spc' = [spc EXCEPT ![c] = "select"]
    /\ UNCHANGED <<pclosed, quitClosed, taskQueue, failedTasks, handed,
                    submits, stask, sctx, sres>>
    /\ UNCHANGED PoolDispatch
    /\ PoolFrame

\* select, case p.taskQueue <- task: return nil
SubmitEnqueue(c) ==
    /\ spc[c] = "select"
    /\ Len(taskQueue) < QueueCap
    /\ taskQueue' = Append(taskQueue, stask[c])
    /\ SubmitReturn(c, "nil")
    /\ UNCHANGED <<pclosed, quitClosed, PoolCounters, submits>>
    /\ UNCHANGED PoolDispatch
    /\ PoolFrame

\* select, case <-ctx.Done(): return ctx.Err()
SubmitCtxDone(c) ==
    /\ spc[c] = "select"
    /\ sctx[c] = "done"
    /\ SubmitReturn(c, "ctx.Err")
    /\ UNCHANGED <<pclosed, quitClosed, taskQueue, PoolCounters, submits>>
    /\ UNCHANGED PoolDispatch
    /\ PoolFrame

\* select, case <-p.quit: return "pool is shutting down"
SubmitQuit(c) ==
    /\ spc[c] = "select"
    /\ quitClosed
    /\ SubmitReturn(c, "pool is shutting down")
    /\ UNCHANGED <<pclosed, quitClosed, taskQueue, PoolCounters, submits>>
    /\ UNCHANGED PoolDispatch
    /\ PoolFrame

\* The ctx of a running SubmitWithContext call is cancelled.
SubmitCtxCancel(c) ==
    /\ spc[c] \notin {"idle", "done"}
    /\ sctx[c] = "live"
    /\ sctx' = [sctx EXCEPT ![c] = "done"]
    /\ UNCHANGED <<pclosed, quitClosed, taskQueue, PoolCounters,
                    submits, spc, stask, sres>>
    /\ UNCHANGED PoolDispatch
    /\ PoolFrame

\* task.Deadline: the tasks with a Deadline have the time the pool started.
Deadline(task) == IF task \in {"due", "duecb"} THEN 1 ELSE 0

\* task.Callback != nil
HasCallback(task) == task \in {"plaincb", "duecb"}

\* task.Deadline.IsZero()
IsZero(t) == t = 0

\* time.Now().After(task.Deadline), t being what time.Now() returned
After(t, task) == t > Deadline(task)

\* The test without the look at IsZero.
ExpiredZeroToo(t, task) == After(t, task)

\* !task.Deadline.IsZero() && time.Now().After(task.Deadline)
Expired(t, task) == ~IsZero(Deadline(task)) /\ After(t, task)

\* dispatcher, case task := <-p.taskQueue, with t the time time.Now()
\* returns (no earlier than the reading before): a task whose Deadline is
\* set and has passed is counted as failed and a goroutine is started that
\* calls its Callback, if it has one; any other task goes on to a worker.
DispatcherTake(t) ==
    /\ Len(taskQueue) > 0
    /\ t >= now
    /\ now' = t
    /\ taskQueue' = Tail(taskQueue)
    /\ IF Expired(t, Head(taskQueue))
         THEN /\ failedTasks' = failedTasks + 1
              /\ callbacks' = IF HasCallback(Head(taskQueue))
                                THEN callbacks + 1 ELSE callbacks
              /\ UNCHANGED handed
         ELSE /\ handed' = handed + 1
              /\ UNCHANGED <<failedTasks, callbacks>>
    /\ UNCHANGED <<pclosed, quitClosed, totalTasks, submits, spc, stask, sctx, sres>>
    /\ PoolFrame

\* Closing the pool: closed is set to 1 ...
PoolCloseStore ==
    /\ pclosed = 0
    /\ pclosed' = 1
    /\ UNCHANGED <<quitClosed, taskQueue, PoolCounters, submits, spc, stask, sctx, sres>>
    /\ UNCHANGED PoolDispatch
    /\ PoolFrame

\* ... and then quit is closed.
PoolCloseQuit ==
    /\ pclosed = 1
    /\ ~quitClosed
    /\ quitClosed' = TRUE
    /\ UNCHANGED <<pclosed, taskQueue, PoolCounters, submits, spc, stask, sctx, sres>>
    /\ UNCHANGED PoolDispatch
    /\ PoolFrame

\* =================================================================
\* hchan and chansend (runtime/chan.go)
\* =================================================================
\* c.lock is held from lock(&c.lock) to the unlock or the park: each locked
\* section is one step.

ChanInit ==
    /\ hmade = FALSE
    /\ dataqsiz = 0
    /\ qcount = 0
    /\ buf = [i \in 0..(MaxBuf - 1) |-> 0]
    /\ closed = 0
    /\ sendx = 0
    /\ recvx = 0
    /\ recvq = <<>>
    /\ sendq = <<>>
    /\ hpc = [g \in ChanGs |-> "idle"]
    /\ hval = [g \in ChanGs |-> 0]
    /\ hblock = [g \in ChanGs |-> FALSE]
    /\ gparam = [g \in ChanGs |-> NoOne]
    /\ hres = [g \in ChanGs |-> "none"]
    /\ hgot = [g \in ChanGs |-> 0]

\* The fields of hchan.
hchanFields == <<hmade, dataqsiz, qcount, buf, closed, sendx, recvx, recvq, sendq>>

\* An index that is not wrapped at the end of the queue.
NextIdxNoWrap(i) == i + 1

\* The next index of the circular queue.
NextIdx(i) == IF i + 1 = dataqsiz THEN 0 ELSE i + 1

\* full(c): an unbuffered channel is full when no receiver waits, a
\* buffered one when the buffer is.
Full == IF dataqsiz = 0 THEN recvq = <<>> ELSE qcount = dataqsiz

\* ch = make(chan T, n)
MakeChan(n) ==
    /\ ~hmade
    /\ hmade' = TRUE
    /\ dataqsiz' = n
    /\ UNCHANGED <<qcount, buf, closed, sendx, recvx, recvq, sendq,
                    hpc, hval, hblock, gparam, hres, hgot>>
    /\ ChanFrame

\* chansend(c, ep, block, callerpc) is called.
ChansendCall(g, v, block) ==
    /\ hpc[g] = "idle"
    /\ hval' = [hval EXCEPT ![g] = v]
    /\ hblock' = [hblock EXCEPT ![g] = block]
    /\ hres' = [hres EXCEPT ![g] = "none"]
    /\ hgot' = [hgot EXCEPT ![g] = 0]
    /\ hpc' = [hpc EXCEPT ![g] = "sendEntry"]
    /\ UNCHANGED <<hchanFields, gparam>>
    /\ ChanFrame

\* chansend is over for g (it returned, or panicked: to is "dead"); ep and
\* block go with the call.
SendEnds(g, to, res) ==
    /\ hpc' = [hpc EXCEPT ![g] = to]
    /\ hres' = [hres EXCEPT ![g] = res]
    /\ hval' = [hval EXCEPT ![g] = 0]
    /\ hblock' = [hblock EXCEPT ![g] = FALSE]

\* chansend before the lock: the nil channel, and the fast path of a
\* non-blocking send that cannot go through.
ChansendEntry(g) ==
    /\ hpc[g] = "sendEntry"
    /\ IF ~hmade
         THEN IF ~hblock[g]
              THEN SendEnds(g, "idle", "false")
              ELSE /\ hpc' = [hpc EXCEPT ![g] = "parkedNil"]
                   /\ UNCHANGED <<hres, hval, hblock>>
         ELSE IF ~hblock[g] /\ closed = 0 /\ Full
              THEN SendEnds(g, "idle", "false")
              ELSE /\ hpc' = [hpc EXCEPT ![g] = "sendLock"]
                   /\ UNCHANGED <<hres, hval, hblock>>
    /\ UNCHANGED <<hchanFields, gparam, hgot>>
    /\ ChanFrame

\* chansend under the lock, past the closed check: hand the value to a
\* waiting receiver, or put it in the buffer, or give up (non-blocking),
\* or park in sendq.
SendLockedBody(g) ==
    IF recvq # <<>>
    THEN LET r == Head(recvq) IN
         /\ recvq' = Tail(recvq)
         /\ hgot' = [hgot EXCEPT ![r] = hval[g]]
         /\ gparam' = [gparam EXCEPT ![r] = 1]
         /\ hpc' = [hpc EXCEPT ![r] = "recvWoken", ![g] = "idle"]
         /\ hres' = [hres EXCEPT ![g] = "true"]
         /\ hval' = [hval EXCEPT ![g] = 0]
         /\ hblock' = [hblock EXCEPT ![g] = FALSE]
         /\ UNCHANGED <<hmade, dataqsiz, qcount, buf, closed, sendx, recvx,
                         sendq>>
    ELSE IF qcount < dataqsiz
    THEN /\ buf' = [buf EXCEPT ![sendx] = hval[g]]
         /\ sendx' = NextIdx(sendx)
         /\ qcount' = qcount + 1
         /\ SendEnds(g, "idle", "true")
         /\ UNCHANGED <<hmade, dataqsiz, closed, recvx, recvq, sendq,
                         gparam, hgot>>
    ELSE IF ~hblock[g]
    THEN /\ SendEnds(g, "idle", "false")
         /\ UNCHANGED <<hchanFields, gparam, hgot>>
    ELSE /\ sendq' = Append(sendq, g)
         /\ gparam' = [gparam EXCEPT ![g] = NoOne]
         /\ hpc' = [hpc EXCEPT ![g] = "sendParked"]
         /\ UNCHANGED <<hmade, dataqsiz, qcount, buf, closed, sendx, recvx,
                         recvq, hval, hblock, hres, hgot>>

\* The panic of a send on a closed channel: the goroutine dies.
SendPanic(g) ==
    /\ SendEnds(g, "dead", "send on closed channel")
    /\ UNCHANGED <<hchanFields, gparam, hgot>>

\* The locked section without its look at c.closed.
ChansendLockedUnchecked(g) ==
    /\ hpc[g] = "sendLock"
    /\ SendLockedBody(g)
    /\ ChanFrame

\* chansend: lock(&c.lock); if c.closed != 0 { unlock; panic }; ...
ChansendLocked(g) ==
    /\ hpc[g] = "sendLock"
    /\ IF closed # 0 THEN SendPanic(g) ELSE SendLockedBody(g)
    /\ ChanFrame

\* chansend after gopark returns: woken by a close (gp.param == nil) it
\* panics, woken by a receiver it returns true.
ChansendWake(g) ==
    /\ hpc[g] = "sendWoken"
    /\ IF gparam[g] = NoOne
         THEN IF closed = 0
              THEN /\ SendEnds(g, "dead", "chansend: spurious wakeup")
                   /\ UNCHANGED <<hchanFields, gparam, hgot>>
              ELSE SendPanic(g)
         ELSE /\ SendEnds(g, "idle", "true")
              /\ gparam' = [gparam EXCEPT ![g] = NoOne]
              /\ UNCHANGED <<hchanFields, hgot>>
    /\ ChanFrame

\* A receive, <-ch (blocking) or in a select with default (not blocking):
\* from a closed and drained channel the zero value; from a parked sender
\* (through the head of the buffer when there is one); from the buffer;
\* else give up or park in recvq.
Chanrecv(g, block) ==
    /\ hpc[g] = "idle"
    /\ hmade
    /\ IF closed # 0 /\ qcount = 0
       THEN /\ hres' = [hres EXCEPT ![g] = "recv closed"]
            /\ hgot' = [hgot EXCEPT ![g] = 0]
            /\ UNCHANGED <<hchanFields, hpc, gparam>>
       ELSE IF sendq # <<>>
       THEN LET sg == Head(sendq) IN
            /\ sendq' = Tail(sendq)
            /\ IF dataqsiz = 0
                 THEN /\ hgot' = [hgot EXCEPT ![g] = hval[sg]]
                      /\ UNCHANGED <<buf, recvx, sendx>>
                 ELSE /\ hgot' = [hgot EXCEPT ![g] = buf[recvx]]
                      /\ buf' = [buf EXCEPT ![recvx] = hval[sg]]
                      /\ recvx' = NextIdx(recvx)
                      /\ sendx' = NextIdx(recvx)
            /\ gparam' = [gparam EXCEPT ![sg] = 1]
            /\ hpc' = [hpc EXCEPT ![sg] = "sendWoken"]
            /\ hres' = [hres EXCEPT ![g] = "recv ok"]
            /\ UNCHANGED <<hmade, dataqsiz, qcount, closed, recvq>>
       ELSE IF qcount > 0
       THEN /\ hgot' = [hgot EXCEPT ![g] = buf[recvx]]
            /\ buf' = [buf EXCEPT ![recvx] = 0]
            /\ recvx' = NextIdx(recvx)
            /\ qcount' = qcount - 1
            /\ hres' = [hres EXCEPT ![g] = "recv ok"]
            /\ UNCHANGED <<hmade, dataqsiz, closed, sendx, recvq, sendq,
                            hpc, gparam>>
       ELSE IF ~block
       THEN /\ hres' = [hres EXCEPT ![g] = "false"]
            /\ hgot' = [hgot EXCEPT ![g] = 0]
            /\ UNCHANGED <<hchanFields, hpc, gparam>>
       ELSE /\ recvq' = Append(recvq, g)
            /\ hpc' = [hpc EXCEPT ![g] = "recvParked"]
            /\ gparam' = [gparam EXCEPT ![g] = NoOne]
            /\ hres' = [hres EXCEPT ![g] = "none"]
            /\ hgot' = [hgot EXCEPT ![g] = 0]
            /\ UNCHANGED <<hmade, dataqsiz, qcount, buf, closed, sendx, recvx,
                            sendq>>
    /\ UNCHANGED <<hval, hblock>>
    /\ ChanFrame

\* A parked receiver runs again: ok is whether a sender woke it.
ChanrecvWake(g) ==
    /\ hpc[g] = "recvWoken"
    /\ hres' = [hres EXCEPT ![g] = IF gparam[g] # NoOne THEN "recv ok"
                                                         ELSE "recv closed"]
    /\ gparam' = [gparam EXCEPT ![g] = NoOne]
    /\ hpc' = [hpc EXCEPT ![g] = "idle"]
    /\ UNCHANGED <<hchanFields, hval, hblock, hgot>>
    /\ ChanFrame

\* The goroutines parked in a wait queue.
Parked(q) == {q[i] : i \in 1..Len(q)}

\* close(ch): a second close panics; the first sets closed and readies
\* every parked receiver and sender with gp.param == nil.
Closechan(g) ==
    /\ hpc[g] = "idle"
    /\ hmade
    /\ IF closed # 0
         THEN /\ hpc' = [hpc EXCEPT ![g] = "dead"]
              /\ hres' = [hres EXCEPT ![g] = "close of closed channel"]
              /\ UNCHANGED <<hchanFields, gparam, hgot>>
         ELSE /\ closed' = 1
              /\ recvq' = <<>>
              /\ sendq' = <<>>
              /\ hpc' = [h \in ChanGs |->
                           IF h \in Parked(recvq) THEN "recvWoken"
                           ELSE IF h \in Parked(sendq) THEN "sendWoken"
                           ELSE hpc[h]]
              /\ gparam' = [h \in ChanGs |->
                           IF h \in Parked(recvq) \cup Parked(sendq)
                           THEN NoOne ELSE gparam[h]]
              /\ hgot' = [h \in ChanGs |->
                           IF h \in Parked(recvq) THEN 0 ELSE hgot[h]]
              /\ hres' = [hres EXCEPT ![g] = "closed it"]
              /\ UNCHANGED <<hmade, dataqsiz, qcount, buf, sendx, recvx>>
    /\ UNCHANGED <<hval, hblock>>
    /\ ChanFrame

\* =================================================================
\* schedule / findrunnable: where a P takes its next goroutine from
\* =================================================================

Procs == 1..NProcs
pp == 1            \* _g_.m.p, the P that runs schedule
OtherPs == Procs \ {pp}

\* Every how many ticks schedule looks at the global queue first.
SchedTickPeriod == 61

SchedInit ==
    /\ runq = [p \in Procs |-> 0]
    /\ runqsize = 0
    /\ schedtick = 0
    /\ ppc = "schedule"
    /\ gpsrc = "none"
    /\ globSeen = "unseen"

\* schedule hands gp, taken from src, to execute.
Selected(src) ==
    /\ gpsrc' = src
    /\ ppc' = "execute"

\* A look at the global queue ahead of the local one, whatever the tick.
GlobalFirstAlways == runqsize > 0

\* schedtick%61 == 0 && sched.runqsize > 0
GlobalFirst == schedtick % SchedTickPeriod = 0 /\ runqsize > 0

\* globrunqget(_p_, max) under sched.lock: a batch of n goroutines leaves the
\* global queue (at most max when max > 0); one is returned, the others go
\* to the local queue. With a queue that is empty by now it returns nil.
Globrunqget(max, src, else) ==
    IF runqsize = 0
    THEN /\ ppc' = else
         /\ globSeen' = "empty"
         /\ UNCHANGED <<runq, runqsize, gpsrc>>
    ELSE \E n \in 1..runqsize :
            /\ max > 0 => n <= max
            /\ runq[pp] + n - 1 <= MaxRunq
            /\ runqsize' = runqsize - n
            /\ runq' = [runq EXCEPT ![pp] = @ + n - 1]
            /\ Selected(src)
            /\ UNCHANGED globSeen

\* runqget(_p_): the head of the local queue, or nil.
Runqget(else) ==
    IF runq[pp] > 0
    THEN /\ runq' = [runq EXCEPT ![pp] = @ - 1]
         /\ Selected("local")
    ELSE /\ ppc' = else
         /\ UNCHANGED <<runq, gpsrc>>

\* runqgrab(p2, ...): half of the victim's goroutines, rounded up.
Runqgrab(n) == n - (n \div 2)

\* go f(): newproc puts the new goroutine on the local queue of the P the
\* running goroutine is on.
Newproc ==
    /\ ppc = "running"
    /\ runq[pp] < MaxRunq
    /\ runq' = [runq EXCEPT ![pp] = @ + 1]
    /\ UNCHANGED <<runqsize, schedtick, ppc, gpsrc, globSeen>>
    /\ SchedFrame

\* The running goroutine ends: goexit1 calls schedule().
Goexit ==
    /\ ppc = "running"
    /\ ppc' = "schedule"
    /\ gpsrc' = "none"
    /\ globSeen' = "unseen"
    /\ UNCHANGED <<runq, runqsize, schedtick>>
    /\ SchedFrame

\* schedule, first look: the test on schedtick and sched.runqsize, read
\* without sched.lock.
ScheduleTick ==
    /\ ppc = "schedule"
    /\ ppc' = IF GlobalFirst THEN "tickLocked" ELSE "local"
    /\ UNCHANGED <<runq, runqsize, schedtick, gpsrc, globSeen>>
    /\ SchedFrame

\* lock(&sched.lock); gp = globrunqget(_p_, 1); unlock(&sched.lock)
ScheduleTickLocked ==
    /\ ppc = "tickLocked"
    /\ Globrunqget(1, "global", "local")
    /\ UNCHANGED schedtick
    /\ SchedFrame

\* schedule, second look: gp, inheritTime = runqget(_p_); with nothing there
\* findrunnable is called.
ScheduleLocal ==
    /\ ppc = "local"
    /\ Runqget("findLocal")
    /\ UNCHANGED <<runqsize, schedtick, globSeen>>
    /\ SchedFrame

\* findrunnable, 1: the local queue once more.
FindLocal ==
    /\ ppc = "findLocal"
    /\ Runqget("findGlobal")
    /\ UNCHANGED <<runqsize, schedtick, globSeen>>
    /\ SchedFrame

\* findrunnable, 2 and 6: sched.runqsize != 0, read without sched.lock.
FindGlobalLook(at, locked, else) ==
    /\ ppc = at
    /\ globSeen' = IF runqsize = 0 THEN "empty" ELSE "nonempty"
    /\ ppc' = IF runqsize # 0 THEN locked ELSE else
    /\ UNCHANGED <<runq, runqsize, schedtick, gpsrc>>
    /\ SchedFrame

\* lock(&sched.lock); gp := globrunqget(_p_, 0); unlock(&sched.lock)
FindGlobalTake(at, else) ==
    /\ ppc = at
    /\ Globrunqget(0, "global", else)
    /\ UNCHANGED schedtick
    /\ SchedFrame

FindGlobal == FindGlobalLook("findGlobal", "findGlobalLocked", "findNetpoll")

FindGlobalLocked == FindGlobalTake("findGlobalLocked", "findNetpoll")

\* findrunnable, 3: netpoll(0) returns n ready goroutines; the first is
\* returned, injectglist puts the others on the global queue.
FindNetpoll(n) ==
    /\ ppc = "findNetpoll"
    /\ IF n > 0
       THEN /\ runqsize + n - 1 <= MaxRunq
            /\ runqsize' = runqsize + n - 1
            /\ Selected("netpoll")
       ELSE /\ ppc' = "findSteal"
            /\ UNCHANGED <<runqsize, gpsrc>>
    /\ UNCHANGED <<runq, schedtick, globSeen>>
    /\ SchedFrame

\* findrunnable, 4: when the M may spin, stealWork goes over the other Ps
\* from a random start and runqsteal takes half of the first non-empty
\* queue: one goroutine is returned, the others land in the local queue.
\* Without spinning, or with nothing to steal, the last looks follow.
FindSteal(spin) ==
    /\ ppc = "findSteal"
    /\ IF spin /\ \E p2 \in OtherPs : runq[p2] > 0
       THEN \E p2 \in OtherPs :
               /\ runq[p2] > 0
               /\ runq[pp] + Runqgrab(runq[p2]) - 1 <= MaxRunq
               /\ runq' = [runq EXCEPT ![p2] = @ - Runqgrab(runq[p2]),
                                       ![pp] = @ + Runqgrab(runq[p2]) - 1]
               /\ Selected("steal")
       ELSE /\ ppc' = "findLast"
            /\ UNCHANGED <<runq, gpsrc>>
    /\ UNCHANGED <<runqsize, schedtick, globSeen>>
    /\ SchedFrame

\* findrunnable, 6 and 7: the last look at the global queue; with nothing
\* there stopm() and, once woken, goto top.
FindLast == FindGlobalLook("findLast", "findLastLocked", "findLocal")

FindLastLocked == FindGlobalTake("findLastLocked", "findLocal")

\* execute(gp, inheritTime): the goroutine runs; schedtick counts the
\* scheduling unless gp inherits the time slice (a gp from the local queue
\* may).
Execute(inheritTime) ==
    /\ ppc = "execute"
    /\ inheritTime => gpsrc = "local"
    /\ ~inheritTime => schedtick < MaxTick
    /\ schedtick' = IF inheritTime THEN schedtick ELSE schedtick + 1
    /\ ppc' = "running"
    /\ UNCHANGED <<runq, runqsize, gpsrc, globSeen>>
    /\ SchedFrame

\* The other Ps run the same code at the same time: their goroutines start
\* goroutines and end, they take from and add to the global queue and they
\* steal from the scheduling P.
OtherNewproc(p2) ==
    /\ runq[p2] < MaxRunq
    /\ runq' = [runq EXCEPT ![p2] = @ + 1]
    /\ UNCHANGED <<runqsize, schedtick, ppc, gpsrc, globSeen>>
    /\ SchedFrame

OtherRunqget(p2) ==
    /\ runq[p2] > 0
    /\ runq' = [runq EXCEPT ![p2] = @ - 1]
    /\ UNCHANGED <<runqsize, schedtick, ppc, gpsrc, globSeen>>
    /\ SchedFrame

OtherGlobrunqget ==
    /\ runqsize > 0
    /\ runqsize' = runqsize - 1
    /\ UNCHANGED <<runq, schedtick, ppc, gpsrc, globSeen>>
    /\ SchedFrame

OtherInjectglist ==
    /\ runqsize < MaxRunq
    /\ runqsize' = runqsize + 1
    /\ UNCHANGED <<runq, schedtick, ppc, gpsrc, globSeen>>
    /\ SchedFrame

OtherRunqsteal(p2) ==
    /\ runq[pp] > 0
    /\ runq[p2] + Runqgrab(runq[pp]) - 1 <= MaxRunq
    /\ runq' = [runq EXCEPT ![pp] = @ - Runqgrab(runq[pp]),
                            ![p2] = @ + Runqgrab(runq[pp]) - 1]
    /\ UNCHANGED <<runqsize, schedtick, ppc, gpsrc, globSeen>>
    /\ SchedFrame

\* =================================================================
\* fanIn: merge the input channels into one result channel
\* =================================================================

InChans == 1..NInputs
InCaps == {0, 1}   \* an input is made by make(chan int) or make(chan int, 1)
Forwarders == 1..NInputs

FanInInit ==
    /\ channels = <<>>
    /\ incap = [c \in InChans |-> 0]
    /\ inbuf = [c \in InChans |-> <<>>]
    /\ inclosed = [c \in InChans |-> FALSE]
    /\ sentIn = 0
    /\ fipc = "idle"
    /\ fwpc = [f \in Forwarders |-> "none"]
    /\ fwn = [f \in Forwarders |-> 0]
    /\ fwg = 0
    /\ clpc = "none"
    /\ resClosed = 0
    /\ conspc = "none"
    /\ delivered = [v \in 1..MaxSent |-> 0]

\* The input channels the call was given.
Inputs == {channels[f] : f \in DOMAIN channels}

\* A Wait() that does not wait.
WgWaitNone(n) == TRUE

\* wg.Wait() returns when the count is 0.
WgWait(n) == n = 0

\* The arguments are numbered in the order of their first appearance, and
\* a channel that is not among them has no capacity to speak of.
Numbered(chs, caps) ==
    /\ \A f \in DOMAIN chs : \A c \in 1..(chs[f] - 1) :
            \E g \in 1..(f - 1) : chs[g] = c
    /\ \A c \in InChans :
            (\A f \in DOMAIN chs : chs[f] # c) => caps[c] = 0

\* fanIn(channels...): result is made, one goroutine per argument is started
\* after wg.Add(1), then the closing goroutine; result is returned to the
\* consumer. The same channel may be given more than once.
FanInCall(chs, caps) ==
    /\ fipc = "idle"
    /\ Numbered(chs, caps)
    /\ fipc' = "returned"
    /\ channels' = chs
    /\ incap' = caps
    /\ fwg' = Len(chs)
    /\ fwpc' = [f \in Forwarders |-> IF f <= Len(chs) THEN "range" ELSE "none"]
    /\ clpc' = "wait"
    /\ conspc' = "recv"
    /\ UNCHANGED <<inbuf, inclosed, sentIn, fwn, resClosed, delivered>>
    /\ FanInFrame

\* A producer sends the next value on the open input c: into the buffer, or,
\* with no buffer room, straight to a forwarder waiting in its range.
InputSend(c) ==
    /\ fipc = "returned"
    /\ c \in Inputs
    /\ ~inclosed[c]
    /\ sentIn < MaxSent
    /\ sentIn' = sentIn + 1
    /\ IF Len(inbuf[c]) < incap[c]
       THEN /\ inbuf' = [inbuf EXCEPT ![c] = Append(@, sentIn + 1)]
            /\ UNCHANGED <<fwpc, fwn>>
       ELSE /\ inbuf[c] = <<>>
            /\ \E f \in DOMAIN channels :
                  /\ channels[f] = c
                  /\ fwpc[f] = "range"
                  /\ fwpc' = [fwpc EXCEPT ![f] = "send"]
                  /\ fwn' = [fwn EXCEPT ![f] = sentIn + 1]
            /\ UNCHANGED inbuf
    /\ UNCHANGED <<channels, incap, inclosed, fipc, fwg, clpc, resClosed,
                   conspc, delivered>>
    /\ FanInFrame

\* The producer of input c closes it.
InputClose(c) ==
    /\ fipc = "returned"
    /\ c \in Inputs
    /\ ~inclosed[c]
    /\ inclosed' = [inclosed EXCEPT ![c] = TRUE]
    /\ UNCHANGED <<channels, incap, inbuf, sentIn, fipc, fwpc, fwn, fwg, clpc,
                   resClosed, conspc, delivered>>
    /\ FanInFrame

\* for n := range c, on a buffered value or at the end: a buffered value is
\* taken; a closed and drained channel ends the loop and the deferred
\* wg.Done() runs.
FwdRange(f) ==
    /\ fwpc[f] = "range"
    /\ IF inbuf[channels[f]] # <<>>
       THEN /\ fwn' = [fwn EXCEPT ![f] = Head(inbuf[channels[f]])]
            /\ inbuf' = [inbuf EXCEPT ![channels[f]] = Tail(@)]
            /\ fwpc' = [fwpc EXCEPT ![f] = "send"]
            /\ UNCHANGED fwg
       ELSE /\ inclosed[channels[f]]
            /\ fwpc' = [fwpc EXCEPT ![f] = "done"]
            /\ fwg' = fwg - 1
            /\ UNCHANGED <<fwn, inbuf>>
    /\ UNCHANGED <<channels, incap, inclosed, sentIn, fipc, clpc, resClosed,
                   conspc, delivered>>
    /\ FanInFrame

\* result <- n, met by the consumer's receive (result has no buffer). On a
\* closed result the statement would panic instead.
FwdSend(f) ==
    /\ fwpc[f] = "send"
    /\ resClosed = 0
    /\ conspc = "recv"
    /\ delivered' = [delivered EXCEPT ![fwn[f]] = @ + 1]
    /\ fwn' = [fwn EXCEPT ![f] = 0]
    /\ fwpc' = [fwpc EXCEPT ![f] = "range"]
    /\ UNCHANGED <<channels, incap, inbuf, inclosed, sentIn, fipc, fwg, clpc,
                   resClosed, conspc>>
    /\ FanInFrame

FwdStep(f) == FwdRange(f) \/ FwdSend(f)

\* The closing goroutine: wg.Wait() returns.
CloserWait ==
    /\ clpc = "wait"
    /\ WgWait(fwg)
    /\ clpc' = "close"
    /\ UNCHANGED <<channels, incap, inbuf, inclosed, sentIn, fipc, fwpc, fwn,
                   fwg, resClosed, conspc, delivered>>
    /\ FanInFrame

\* The closing goroutine: close(result).
CloserClose ==
    /\ clpc = "close"
    /\ clpc' = "done"
    /\ resClosed' = resClosed + 1
    /\ UNCHANGED <<channels, incap, inbuf, inclosed, sentIn, fipc, fwpc, fwn,
                   fwg, conspc, delivered>>
    /\ FanInFrame

CloserStep == CloserWait \/ CloserClose

\* The consumer's receive on the closed result: its loop ends.
ConsumerEnd ==
    /\ conspc = "recv"
    /\ resClosed > 0
    /\ conspc' = "done"
    /\ UNCHANGED <<channels, incap, inbuf, inclosed, sentIn, fipc, fwpc, fwn,
                   fwg, clpc, resClosed, delivered>>
    /\ FanInFrame

\* A consumer that stops receiving before result is closed.
ConsumerStop ==
    /\ conspc = "recv"
    /\ resClosed = 0
    /\ conspc' = "gone"
    /\ UNCHANGED <<channels, incap, inbuf, inclosed, sentIn, fipc, fwpc, fwn,
                   fwg, clpc, resClosed, delivered>>
    /\ FanInFrame

\* =================================================================
\* workerPool: numWorkers goroutines turn tasks into results
\* =================================================================

PoolWorkers == 1..MaxPoolWorkers
TaskIds == 1..MaxTasks

WorkerPoolInit ==
    /\ numWorkers = 0
    /\ taskcap = 0
    /\ taskbuf = <<>>
    /\ tasksClosed = FALSE
    /\ tasksSent = 0
    /\ wppc = "idle"
    /\ wkpc = [w \in PoolWorkers |-> "none"]
    /\ wktask = [w \in PoolWorkers |-> 0]
    /\ pwg = 0
    /\ pclpc = "none"
    /\ resultsClosed = 0
    /\ rescap = 0
    /\ resq = 0
    /\ rconspc = "none"
    /\ produced = [t \in TaskIds |-> 0]

\* A range loop that ends as soon as the channel has nothing to give.
RangeEndsOnEmpty(isClosed, buffered) == buffered = <<>>

\* for task := range tasks ends when tasks is closed and drained.
RangeEnds(isClosed, buffered) == isClosed /\ buffered = <<>>

\* workerPool(numWorkers, tasks, results): for i < numWorkers a worker is
\* started after wg.Add(1), then the closing goroutine; the call returns.
WorkerPoolCall(n, tcap, rcap) ==
    /\ wppc = "idle"
    /\ wppc' = "returned"
    /\ numWorkers' = n
    /\ taskcap' = tcap
    /\ rescap' = rcap
    /\ pwg' = n
    /\ wkpc' = [w \in PoolWorkers |-> IF w <= n THEN "range" ELSE "none"]
    /\ pclpc' = "wait"
    /\ rconspc' = "recv"
    /\ UNCHANGED <<taskbuf, tasksClosed, tasksSent, wktask, resultsClosed,
                   resq, produced>>
    /\ WorkerPoolFrame

\* The producer sends the next task on the open tasks channel: into the
\* buffer, or, with no buffer room, straight to a worker waiting in its range.
TaskSend ==
    /\ wppc = "returned"
    /\ ~tasksClosed
    /\ tasksSent < MaxTasks
    /\ tasksSent' = tasksSent + 1
    /\ IF Len(taskbuf) < taskcap
       THEN /\ taskbuf' = Append(taskbuf, tasksSent + 1)
            /\ UNCHANGED <<wkpc, wktask>>
       ELSE /\ taskbuf = <<>>
            /\ \E w \in PoolWorkers :
                  /\ wkpc[w] = "range"
                  /\ wkpc' = [wkpc EXCEPT ![w] = "send"]
                  /\ wktask' = [wktask EXCEPT ![w] = tasksSent + 1]
            /\ UNCHANGED taskbuf
    /\ UNCHANGED <<numWorkers, taskcap, tasksClosed, wppc, pwg, pclpc,
                   resultsClosed, rescap, resq, rconspc, produced>>
    /\ WorkerPoolFrame

\* The producer closes tasks.
TasksClose ==
    /\ wppc = "returned"
    /\ ~tasksClosed
    /\ tasksClosed' = TRUE
    /\ UNCHANGED <<numWorkers, taskcap, taskbuf, tasksSent, wppc, wkpc, wktask,
                   pwg, pclpc, resultsClosed, rescap, resq, rconspc, produced>>
    /\ WorkerPoolFrame

\* for task := range tasks, on a buffered task or at the end; a received
\* task goes through processTask; at the end the deferred wg.Done() runs.
WorkerRange(w) ==
    /\ wkpc[w] = "range"
    /\ IF RangeEnds(tasksClosed, taskbuf)
       THEN /\ wkpc' = [wkpc EXCEPT ![w] = "done"]
            /\ pwg' = pwg - 1
            /\ UNCHANGED <<wktask, taskbuf>>
       ELSE /\ taskbuf # <<>>
            /\ wktask' = [wktask EXCEPT ![w] = Head(taskbuf)]
            /\ taskbuf' = Tail(taskbuf)
            /\ wkpc' = [wkpc EXCEPT ![w] = "send"]
            /\ UNCHANGED pwg
    /\ UNCHANGED <<numWorkers, taskcap, tasksClosed, tasksSent, wppc, pclpc,
                   resultsClosed, rescap, resq, rconspc, produced>>
    /\ WorkerPoolFrame

\* results <- result: into the buffer of results, or met by the consumer's
\* receive. On a closed results the statement would panic instead.
WorkerResult(w) ==
    /\ wkpc[w] = "send"
    /\ resultsClosed = 0
    /\ IF resq < rescap
       THEN resq' = resq + 1
       ELSE /\ resq = 0
            /\ rconspc = "recv"
            /\ UNCHANGED resq
    /\ produced' = [produced EXCEPT ![wktask[w]] = @ + 1]
    /\ wktask' = [wktask EXCEPT ![w] = 0]
    /\ wkpc' = [wkpc EXCEPT ![w] = "range"]
    /\ UNCHANGED <<numWorkers, taskcap, taskbuf, tasksClosed, tasksSent, wppc,
                   pwg, pclpc, resultsClosed, rescap, rconspc>>
    /\ WorkerPoolFrame

\* The closing goroutine: wg.Wait() returns.
PoolCloserWait ==
    /\ pclpc = "wait"
    /\ WgWait(pwg)
    /\ pclpc' = "close"
    /\ UNCHANGED <<numWorkers, taskcap, taskbuf, tasksClosed, tasksSent, wppc,
                   wkpc, wktask, pwg, resultsClosed, rescap, resq, rconspc,
                   produced>>
    /\ WorkerPoolFrame

\* The closing goroutine: close(results).
PoolCloserClose ==
    /\ pclpc = "close"
    /\ pclpc' = "done"
    /\ resultsClosed' = resultsClosed + 1
    /\ UNCHANGED <<numWorkers, taskcap, taskbuf, tasksClosed, tasksSent, wppc,
                   wkpc, wktask, pwg, rescap, resq, rconspc, produced>>
    /\ WorkerPoolFrame

\* The consumer of results takes a buffered result, or finds results closed
\* and drained and ends.
ResultsRecv ==
    /\ rconspc = "recv"
    /\ IF resq > 0
       THEN /\ resq' = resq - 1
            /\ UNCHANGED rconspc
       ELSE /\ resultsClosed > 0
            /\ rconspc' = "done"
            /\ UNCHANGED resq
    /\ UNCHANGED <<numWorkers, taskcap, taskbuf, tasksClosed, tasksSent, wppc,
                   wkpc, wktask, pwg, pclpc, resultsClosed, rescap, produced>>
    /\ WorkerPoolFrame

\* =================================================================
\* Scheduler: AddTask, CancelTask and the timers of time.AfterFunc
\* =================================================================

TaskNames == 1..NTaskNames
Timers == 1..MaxAdds

SchedulerInit ==
    /\ tasks = [id \in TaskNames |-> NoOne]
    /\ timerId = [t \in Timers |-> NoOne]
    /\ timerAt = [t \in Timers |-> "none"]
    /\ cancelRet = <<NoOne, FALSE>>

\* timer.Stop(): an armed timer will not fire any more; on a timer that has
\* fired already nothing changes.
TimerStop(at, t) ==
    IF t # NoOne /\ at[t] = "armed" THEN [at EXCEPT ![t] = "stopped"] ELSE at

\* AddTask(id, delay, task), all of it under s.mu: the timer found under id
\* is stopped, a new timer is made by time.AfterFunc and put under id.
AddTask(id) ==
    \E t \in Timers :
        /\ timerAt[t] = "none"
        /\ \A u \in 1..(t - 1) : timerAt[u] # "none"
        /\ timerAt' = [TimerStop(timerAt, tasks[id]) EXCEPT ![t] = "armed"]
        /\ timerId' = [timerId EXCEPT ![t] = id]
        /\ tasks' = [tasks EXCEPT ![id] = t]
        /\ UNCHANGED cancelRet
        /\ SchedulerFrame

\* The delay of timer t has passed: its function starts in a goroutine of
\* its own and calls task().
TimerFire(t) ==
    /\ timerAt[t] = "armed"
    /\ timerAt' = [timerAt EXCEPT ![t] = "running"]
    /\ UNCHANGED <<tasks, timerId, cancelRet>>
    /\ SchedulerFrame

\* task() has returned: s.mu.Lock(); delete(s.tasks, id); s.mu.Unlock()
TimerCleanup(t) ==
    /\ timerAt[t] = "running"
    /\ timerAt' = [timerAt EXCEPT ![t] = "finished"]
    /\ tasks' = [tasks EXCEPT ![timerId[t]] = NoOne]
    /\ UNCHANGED <<timerId, cancelRet>>
    /\ SchedulerFrame

\* CancelTask(id), all of it under s.mu.
CancelTask(id) ==
    /\ IF tasks[id] # NoOne
       THEN /\ timerAt' = TimerStop(timerAt, tasks[id])
            /\ tasks' = [tasks EXCEPT ![id] = NoOne]
            /\ cancelRet' = <<id, TRUE>>
       ELSE /\ cancelRet' = <<id, FALSE>>
            /\ UNCHANGED <<tasks, timerAt>>
    /\ UNCHANGED timerId
    /\ SchedulerFrame

\* =================================================================
\* UserRepo.TransferCredit: a credit transfer in one transaction
\* =================================================================

CreditUsers == 1..NCreditUsers
Amounts == (0 - 1)..MaxAmount
NoRow == <<>>      \* no row for the user; a row with credit v is <<v>>

CreditInit ==
    /\ credit = [u \in CreditUsers |-> NoRow]
    /\ transfers = <<>>
    /\ txpc = "idle"
    /\ txargs = <<1, 1, 0>>
    /\ txCredit = [u \in CreditUsers |-> NoRow]
    /\ txRows = <<>>
    /\ txret = "none"
    /\ txBefore = <<[u \in CreditUsers |-> NoRow], <<>>>>

\* UPDATE user_credits SET credit = credit + delta WHERE user_id = id: a
\* missing row makes it an update of no rows, which is no error.
UpdateCredit(rows, id, delta) ==
    IF rows[id] = NoRow THEN rows ELSE [rows EXCEPT ![id] = <<@[1] + delta>>]

\* A row of user_credits is there before any transfer: user u has credit v.
CreditRow(u, v) ==
    /\ txpc = "idle"
    /\ txret = "none"
    /\ credit[u] = NoRow
    /\ credit' = [credit EXCEPT ![u] = <<v>>]
    /\ UNCHANGED <<transfers, txpc, txargs, txCredit, txRows, txret, txBefore>>
    /\ CreditFrame

\* The call returns err without a commit: the deferred tx.Rollback() drops
\* what the transaction did.
TxFail(err) ==
    /\ txpc' = "idle"
    /\ txret' = err
    /\ txCredit' = [u \in CreditUsers |-> NoRow]
    /\ txRows' = <<>>
    /\ UNCHANGED <<credit, transfers, txargs, txBefore>>

\* TransferCredit(fromID, toID, amount): r.db.Begin()
TransferCreditCall(fromID, toID, amount, ok) ==
    /\ txpc = "idle"
    /\ Len(transfers) < MaxTransfers
    /\ txargs' = <<fromID, toID, amount>>
    /\ txBefore' = <<credit, transfers>>
    /\ IF ok
       THEN /\ txpc' = "debit"
            /\ txCredit' = credit
            /\ txRows' = <<>>
            /\ txret' = "running"
       ELSE /\ txpc' = "idle"
            /\ txret' = "err"
            /\ UNCHANGED <<txCredit, txRows>>
    /\ UNCHANGED <<credit, transfers>>
    /\ CreditFrame

\* tx.Exec("UPDATE user_credits SET credit = credit - ? ...", amount, fromID)
ExecDebit(ok) ==
    /\ txpc = "debit"
    /\ IF ok
       THEN /\ txCredit' = UpdateCredit(txCredit, txargs[1], 0 - txargs[3])
            /\ txpc' = "query"
            /\ UNCHANGED <<credit, transfers, txargs, txRows, txret, txBefore>>
       ELSE TxFail("err")
    /\ CreditFrame

\* tx.QueryRow("SELECT credit ...", fromID).Scan(&balance), then the test
\* balance < 0; a missing row is sql.ErrNoRows.
QueryBalance(ok) ==
    /\ txpc = "query"
    /\ IF ~ok \/ txCredit[txargs[1]] = NoRow
       THEN TxFail("err")
       ELSE IF txCredit[txargs[1]][1] < 0
            THEN TxFail("insufficient")
            ELSE /\ txpc' = "credit"
                 /\ UNCHANGED <<credit, transfers, txargs, txCredit, txRows,
                                txret, txBefore>>
    /\ CreditFrame

\* tx.Exec("UPDATE user_credits SET credit = credit + ? ...", amount, toID)
ExecCredit(ok) ==
    /\ txpc = "credit"
    /\ IF ok
       THEN /\ txCredit' = UpdateCredit(txCredit, txargs[2], txargs[3])
            /\ txpc' = "history"
            /\ UNCHANGED <<credit, transfers, txargs, txRows, txret, txBefore>>
       ELSE TxFail("err")
    /\ CreditFrame

\* tx.Exec("INSERT INTO credit_transfers(from_id, to_id, amount) ...")
InsertTransfer(ok) ==
    /\ txpc = "history"
    /\ IF ok
       THEN /\ txRows' = Append(txRows, txargs)
            /\ txpc' = "commit"
            /\ UNCHANGED <<credit, transfers, txargs, txCredit, txret, txBefore>>
       ELSE TxFail("err")
    /\ CreditFrame

\* return tx.Commit(): what the transaction did becomes the committed state,
\* or Commit fails and nothing of it does.
TxCommit(ok) ==
    /\ txpc = "commit"
    /\ IF ok
       THEN /\ credit' = txCredit
            /\ transfers' = transfers \o txRows
            /\ txpc' = "idle"
            /\ txret' = "nil"
            /\ txCredit' = [u \in CreditUsers |-> NoRow]
            /\ txRows' = <<>>
            /\ UNCHANGED <<txargs, txBefore>>
       ELSE TxFail("err")
    /\ CreditFrame

\* =================================================================
\* UserRepo: NewUserRepo and Close
\* =================================================================

\* The statements in the order NewUserRepo prepares and Close closes them.
StmtOrder == <<"insertStmt", "updateStmt", "deleteStmt", "getByIDStmt">>
Stmts == {StmtOrder[i] : i \in DOMAIN StmtOrder}

RepoInit ==
    /\ stmt = [s \in Stmts |-> "nil"]
    /\ repopc = <<"prepare", 1>>
    /\ closeCalls = 0
    /\ closedNow = {}
    /\ closeRet = "none"
    /\ execRet = <<"none", "none">>

\* NewUserRepo, the i-th db.Prepare: on an error the statements prepared so
\* far are closed and no repo is returned.
Prepare(i, ok) ==
    /\ repopc = <<"prepare", i>>
    /\ IF ok
       THEN /\ stmt' = [stmt EXCEPT ![StmtOrder[i]] = "open"]
            /\ repopc' = IF i < Len(StmtOrder) THEN <<"prepare", i + 1>>
                         ELSE <<"ready", 0>>
       ELSE /\ stmt' = [s \in Stmts |->
                           IF stmt[s] = "open" THEN "closed" ELSE stmt[s]]
            /\ repopc' = <<"failed", i>>
    /\ UNCHANGED <<closeCalls, closedNow, closeRet, execRet>>
    /\ RepoFrame

\* r.Close() is called.
CloseCall ==
    /\ repopc = <<"ready", 0>>
    /\ closeCalls < MaxCloseCalls
    /\ closeCalls' = closeCalls + 1
    /\ closedNow' = {}
    /\ closeRet' = "running"
    /\ repopc' = <<"close", 1>>
    /\ UNCHANGED <<stmt, execRet>>
    /\ RepoFrame

\* Close, the i-th statement: if err := r.xStmt.Close(); err != nil
\* { return err }; after the last one return nil. Only a statement that is
\* still open can fail to close.
CloseStmt(i, ok) ==
    /\ repopc = <<"close", i>>
    /\ ~ok => stmt[StmtOrder[i]] = "open"
    /\ stmt' = [stmt EXCEPT ![StmtOrder[i]] = "closed"]
    /\ closedNow' = closedNow \cup {StmtOrder[i]}
    /\ IF ~ok
       THEN /\ closeRet' = "err"
            /\ repopc' = <<"ready", 0>>
       ELSE IF i < Len(StmtOrder)
            THEN /\ repopc' = <<"close", i + 1>>
                 /\ UNCHANGED closeRet
            ELSE /\ closeRet' = "nil"
                 /\ repopc' = <<"ready", 0>>
    /\ UNCHANGED <<closeCalls, execRet>>
    /\ RepoFrame

\* Create, GetByID, Update or Delete runs its statement: a closed statement
\* gives an error, an open one may.
StmtExec(s, ok) ==
    /\ repopc = <<"ready", 0>>
    /\ ok => stmt[s] = "open"
    /\ execRet' = <<s, IF ok THEN "nil" ELSE "err">>
    /\ UNCHANGED <<stmt, repopc, closeCalls, closedNow, closeRet>>
    /\ RepoFrame

\* =================================================================
\* The Redis-backed login example: /login, /profile, /logout
\* =================================================================

SessIds == 1..MaxLogins
ProfileReqs == 1..NProfileReqs
NoCookie == 0      \* the request carries no session_id cookie

\* The cookies a client can send: none, or a session id given out so far.
Cookies == {NoCookie} \cup 1..issued

SessionInit ==
    /\ sessKeys = {}
    /\ issued = 0
    /\ loggedOut = {}
    /\ loginStatus = "none"
    /\ pfpc = [r \in ProfileReqs |-> "idle"]
    /\ pfsid = [r \in ProfileReqs |-> NoCookie]
    /\ pfLate = [r \in ProfileReqs |-> FALSE]
    /\ pfStatus = [r \in ProfileReqs |-> "none"]

\* A DEL that leaves the key where it is.
RedisDelKept(keys, sid) == keys

\* rdb.Del(ctx, "session:"+sessionID)
RedisDel(keys, sid) == keys \ {sid}

\* POST /login: with the right username and password a session with a fresh
\* uuid is stored in Redis and the cookie is set; otherwise 401.
Login(valid) ==
    /\ IF valid
       THEN /\ issued < MaxLogins
            /\ issued' = issued + 1
            /\ sessKeys' = sessKeys \cup {issued + 1}
            /\ loginStatus' = "200"
       ELSE /\ loginStatus' = "401"
            /\ UNCHANGED <<issued, sessKeys>>
    /\ UNCHANGED <<loggedOut, pfpc, pfsid, pfLate, pfStatus>>
    /\ SessionFrame

\* POST /logout: with a session_id cookie the session key is deleted; the
\* cookie is cleared and the answer is 200 either way.
Logout(sid) ==
    /\ sid \in Cookies
    /\ IF sid # NoCookie
       THEN /\ sessKeys' = RedisDel(sessKeys, sid)
            /\ loggedOut' = loggedOut \cup {sid}
       ELSE UNCHANGED <<sessKeys, loggedOut>>
    /\ UNCHANGED <<issued, loginStatus, pfpc, pfsid, pfLate, pfStatus>>
    /\ SessionFrame

\* The 24 hours of a session key pass: Redis drops it.
SessionExpire(sid) ==
    /\ sid \in sessKeys
    /\ sessKeys' = sessKeys \ {sid}
    /\ UNCHANGED <<issued, loggedOut, loginStatus, pfpc, pfsid, pfLate,
                   pfStatus>>
    /\ SessionFrame

\* GET /profile arrives: c.Cookie("session_id"); without the cookie 401.
ProfileCall(r, sid) ==
    /\ pfpc[r] \in {"idle", "done"}
    /\ sid \in Cookies
    /\ pfsid' = [pfsid EXCEPT ![r] = sid]
    /\ pfLate' = [pfLate EXCEPT ![r] = sid \in loggedOut]
    /\ IF sid = NoCookie
       THEN /\ pfpc' = [pfpc EXCEPT ![r] = "done"]
            /\ pfStatus' = [pfStatus EXCEPT ![r] = "401"]
       ELSE /\ pfpc' = [pfpc EXCEPT ![r] = "get"]
            /\ pfStatus' = [pfStatus EXCEPT ![r] = "none"]
    /\ UNCHANGED <<sessKeys, issued, loggedOut, loginStatus>>
    /\ SessionFrame

\* rdb.Get(ctx, "session:"+sessionID).Result(): a missing key, or a failed
\* command, is an error and the answer is 401.
ProfileGet(r, ok) ==
    /\ pfpc[r] = "get"
    /\ IF ok /\ pfsid[r] \in sessKeys
       THEN /\ pfpc' = [pfpc EXCEPT ![r] = "expire"]
            /\ UNCHANGED pfStatus
       ELSE /\ pfpc' = [pfpc EXCEPT ![r] = "done"]
            /\ pfStatus' = [pfStatus EXCEPT ![r] = "401"]
    /\ UNCHANGED <<sessKeys, issued, loggedOut, loginStatus, pfsid, pfLate>>
    /\ SessionFrame

\* rdb.Expire(...) renews the key if it is still there (a key that is gone
\* stays gone), then 200 with the user data.
ProfileExpire(r) ==
    /\ pfpc[r] = "expire"
    /\ pfpc' = [pfpc EXCEPT ![r] = "done"]
    /\ pfStatus' = [pfStatus EXCEPT ![r] = "200"]
    /\ UNCHANGED <<sessKeys, issued, loggedOut, loginStatus, pfsid, pfLate>>
    /\ SessionFrame

\* =================================================================
\* The file utility: main, parseFlags and the file operations
\* =================================================================

FilePaths == {"a", "b"}
Contents == {"", "x"}
NoFile == <<>>     \* no such file; a file with content c is <<c>>

\* The operation flags, in the order of the cases of main's switch.
OpFlags == <<"Create", "Read", "Write", "Append", "Copy", "Delete", "List",
             "Rename">>
OpNames == {OpFlags[i] : i \in DOMAIN OpFlags}

\* The operation flags one command line sets.
OpSets == {ops \in SUBSET OpNames : Cardinality(ops) <= MaxOpFlags}

\* CommandFlags: the operation flags that are set, Help, Path, Content, Dest.
CommandFlags(ops, help, path, content, dest) ==
    <<ops, help, path, content, dest>>

Flag(f, op) == op \in f[1]
Help(f) == f[2]
Path(f) == f[3]
Content(f) == f[4]
Dest(f) == f[5]

FileutilInit ==
    /\ fs = [p \in FilePaths |-> NoFile]
    /\ mpc = "start"
    /\ cmdFlags = CommandFlags({}, FALSE, "", "", "")
    /\ printed = <<"none", "none">>
    /\ called = "none"

\* The file operations: <<the file system afterwards, whether err is nil>>.
\* ok is FALSE when the operating system refuses the call for a reason the
\* model does not hold (permissions, a missing directory).
\* The empty path names no file: every call on it fails.
Named(files, path) == path \in DOMAIN files

FileAt(files, path) == IF Named(files, path) THEN files[path] ELSE NoFile

createFile(files, path, ok) ==
    IF ok /\ Named(files, path) THEN <<[files EXCEPT ![path] = <<"">>], TRUE>> ELSE <<files, FALSE>>

readFile(files, path, ok) == <<files, ok /\ FileAt(files, path) # NoFile>>

writeFile(files, path, content, ok) ==
    IF ok /\ Named(files, path)
    THEN <<[files EXCEPT ![path] = <<content>>], TRUE>>
    ELSE <<files, FALSE>>

\* An append that opens the file as writeFile does.
appendToFileTruncating(files, path, content, ok) ==
    writeFile(files, path, content, ok)

appendToFile(files, path, content, ok) ==
    IF ok /\ FileAt(files, path) # NoFile
    THEN <<[files EXCEPT ![path] = <<@[1] \o content>>], TRUE>>
    ELSE <<files, FALSE>>

\* os.Open(src); os.Create(dest), which empties dest; io.Copy reads what src
\* holds then.
copyFile(files, src, dest, ok) ==
    IF FileAt(files, src) = NoFile
    THEN <<files, FALSE>>
    ELSE IF ~ok \/ ~Named(files, dest)
         THEN <<files, FALSE>>
         ELSE LET created == [files EXCEPT ![dest] = <<"">>]
              IN  <<[created EXCEPT ![dest] = created[src]], TRUE>>

deleteFile(files, path, ok) ==
    IF ok /\ FileAt(files, path) # NoFile
    THEN <<[files EXCEPT ![path] = NoFile], TRUE>>
    ELSE <<files, FALSE>>

listFiles(files, path, ok) == <<files, ok>>

renameFile(files, oldPath, newPath, ok) ==
    IF ok /\ FileAt(files, oldPath) # NoFile /\ Named(files, newPath)
    THEN <<[p \in FilePaths |->
              IF p = newPath THEN files[oldPath]
              ELSE IF p = oldPath THEN NoFile ELSE files[p]], TRUE>>
    ELSE <<files, FALSE>>

\* A test that finds no argument missing.
MissingNever(arg) == FALSE

\* cmdFlags.Path == "" / cmdFlags.Dest == ""
Missing(arg) == arg = ""

\* A test that never finds -help.
HelpSetNever(f) == FALSE

\* if cmdFlags.Help
HelpSet(f) == Help(f)

\* A file was there before the program ran.
FileExists(p, c) ==
    /\ mpc = "start"
    /\ fs[p] = NoFile
    /\ fs' = [fs EXCEPT ![p] = <<c>>]
    /\ UNCHANGED <<mpc, cmdFlags, printed, called>>
    /\ FileutilFrame

\* cmdFlags := parseFlags()
ParseFlags(f) ==
    /\ mpc = "start"
    /\ mpc' = "parsed"
    /\ cmdFlags' = f
    /\ UNCHANGED <<fs, printed, called>>
    /\ FileutilFrame

\* printHelp(): nothing is called.
PrintHelp ==
    /\ printed' = <<"help", "none">>
    /\ called' = "none"
    /\ UNCHANGED fs

\* The "... required ..." message of a case, then return.
PrintRequired(op) ==
    /\ printed' = <<"required", op>>
    /\ called' = "none"
    /\ UNCHANGED fs

\* The file operation of a case is called and its outcome printed.
Perform(op, res) ==
    /\ called' = op
    /\ fs' = res[1]
    /\ printed' = <<IF res[2] THEN "done" ELSE "error", op>>

\* main after parseFlags: the -help test, then the switch, whose first true
\* case is taken.
Main(ok) ==
    /\ mpc = "parsed"
    /\ mpc' = "exit"
    /\ UNCHANGED cmdFlags
    /\ LET f == cmdFlags IN
       IF HelpSet(f) THEN PrintHelp
       ELSE IF Flag(f, "Create") THEN
            IF Missing(Path(f)) THEN PrintRequired("Create")
            ELSE Perform("Create", createFile(fs, Path(f), ok))
       ELSE IF Flag(f, "Read") THEN
            IF Missing(Path(f)) THEN PrintRequired("Read")
            ELSE Perform("Read", readFile(fs, Path(f), ok))
       ELSE IF Flag(f, "Write") THEN
            IF Missing(Path(f)) THEN PrintRequired("Write")
            ELSE Perform("Write", writeFile(fs, Path(f), Content(f), ok))
       ELSE IF Flag(f, "Append") THEN
            IF Missing(Path(f)) THEN PrintRequired("Append")
            ELSE Perform("Append", appendToFile(fs, Path(f), Content(f), ok))
       ELSE IF Flag(f, "Copy") THEN
            IF Missing(Path(f)) \/ Missing(Dest(f)) THEN PrintRequired("Copy")
            ELSE Perform("Copy", copyFile(fs, Path(f), Dest(f), ok))
       ELSE IF Flag(f, "Delete") THEN
            IF Missing(Path(f)) THEN PrintRequired("Delete")
            ELSE Perform("Delete", deleteFile(fs, Path(f), ok))
       ELSE IF Flag(f, "List") THEN
            IF Missing(Path(f)) THEN PrintRequired("List")
            ELSE Perform("List", listFiles(fs, Path(f), ok))
       ELSE IF Flag(f, "Rename") THEN
            IF Missing(Path(f)) \/ Missing(Dest(f)) THEN PrintRequired("Rename")
            ELSE Perform("Rename", renameFile(fs, Path(f), Dest(f), ok))
       ELSE PrintHelp
    /\ FileutilFrame

\* =================================================================
\* calcRemainderAndMod and doubleEven: int arithmetic with errors
\* =================================================================
\* int is a two's-complement integer of IntBits bits; / truncates toward
\* zero, % is the remainder of that division, and * wraps around.

MinInt == 0 - 2 ^ (IntBits - 1)
MaxInt == 2 ^ (IntBits - 1) - 1
Ints == MinInt..MaxInt

Abs(x) == IF x < 0 THEN 0 - x ELSE x

\* The int that a mathematical result comes out as.
WrapInt(x) == ((x - MinInt) % 2 ^ IntBits) + MinInt

\* Division rounding toward minus infinity.
QuoFloor(n, d) ==
    WrapInt(IF d < 0 THEN (0 - n) \div (0 - d) ELSE n \div d)

\* numerator / denominator
Quo(n, d) ==
    WrapInt(IF (n < 0) = (d < 0)
            THEN Abs(n) \div Abs(d)
            ELSE 0 - (Abs(n) \div Abs(d)))

\* numerator % denominator
Rem(n, d) == WrapInt(n - d * Quo(n, d))

\* i * 2
Mul(a, b) == WrapInt(a * b)

ArithInit ==
    /\ arfn = "none"
    /\ arargs = <<>>
    /\ arret = <<>>

calcRemainderAndMod(numerator, denominator) ==
    IF denominator = 0
    THEN <<0, 0, "error">>
    ELSE <<Quo(numerator, denominator), Rem(numerator, denominator), "nil">>

\* i%2 == 1
OddPositive(i) == Rem(i, 2) = 1

\* i%2 != 0
Odd(i) == Rem(i, 2) # 0

doubleEven(i) ==
    IF Odd(i) THEN <<0, "error">> ELSE <<Mul(i, 2), "nil">>

CalcCall(n, d) ==
    /\ arfn = "none"
    /\ arfn' = "calcRemainderAndMod"
    /\ arargs' = <<n, d>>
    /\ arret' = calcRemainderAndMod(n, d)
    /\ ArithFrame

DoubleCall(i) ==
    /\ arfn = "none"
    /\ arfn' = "doubleEven"
    /\ arargs' = <<i>>
    /\ arret' = doubleEven(i)
    /\ ArithFrame

\* =================================================================
\* Stack[T]: Push and Pop
\* =================================================================
\* T is int: the values pushed are 1..NItemVals, the zero value is 0.

ItemVals == 1..NItemVals
ZeroItem == 0

StackInit ==
    /\ items = <<>>
    /\ stackOp = "none"
    /\ stackRet = <<>>
    /\ itemsWas = <<>>

\* s.items[0]
ItemAtFirst(s, index) == s[1]

\* s.items[index], index counted from 0
ItemAt(s, index) == s[index + 1]

\* s.items[:index]
SliceTo(s, index) == SubSeq(s, 1, index)

Push(item) ==
    /\ Len(items) < MaxStack
    /\ items' = Append(items, item)
    /\ stackOp' = "Push"
    /\ stackRet' = <<>>
    /\ itemsWas' = items
    /\ StackFrame

Pop ==
    /\ IF Len(items) = 0
       THEN /\ stackRet' = <<ZeroItem, FALSE>>
            /\ items' = items
       ELSE LET index == Len(items) - 1 IN
            /\ stackRet' = <<ItemAt(items, index), TRUE>>
            /\ items' = SliceTo(items, index)
    /\ stackOp' = "Pop"
    /\ itemsWas' = items
    /\ StackFrame

\* =================================================================
\* processLargeFile: four workers, one reader, the collecting loop
\* =================================================================
\* The workers run the same loop and are counted by where they stand.

concurrency == 4

LargeFileInit ==
    /\ lfpc = "idle"
    /\ lfret = "none"
    /\ chunksLeft = 0
    /\ fileClosed = FALSE
    /\ jobs = 0
    /\ jobsClosed = FALSE
    /\ results = <<>>
    /\ idleWorkers = 0
    /\ sendingNil = 0
    /\ sendingErr = 0
    /\ rdpc = "none"
    /\ collected = 0
    /\ firstErr = "nil"
    /\ nread = 0
    /\ nprocessed = 0

\* processLargeFile(filename) on a file of nchunks chunks: os.Open fails, or
\* the channels are made and the workers and the reader are started.
ProcessLargeFileCall(nchunks, openOk) ==
    /\ lfpc = "idle"
    /\ IF openOk
         THEN /\ lfpc' = "collect"
              /\ chunksLeft' = nchunks
              /\ idleWorkers' = concurrency
              /\ rdpc' = "read"
              /\ UNCHANGED lfret
         ELSE /\ lfpc' = "returned"
              /\ lfret' = "err"
              /\ UNCHANGED <<chunksLeft, idleWorkers, rdpc>>
    /\ UNCHANGED <<fileClosed, jobs, jobsClosed, results, sendingNil,
                    sendingErr, collected, firstErr, nread, nprocessed>>
    /\ LargeFileFrame

\* for chunk := range jobs; err := processChunk(chunk)
WorkerProcess(err) ==
    /\ idleWorkers > 0
    /\ jobs > 0
    /\ jobs' = jobs - 1
    /\ idleWorkers' = idleWorkers - 1
    /\ nprocessed' = nprocessed + 1
    /\ IF err = "nil"
         THEN sendingNil' = sendingNil + 1 /\ UNCHANGED sendingErr
         ELSE sendingErr' = sendingErr + 1 /\ UNCHANGED sendingNil
    /\ UNCHANGED <<lfpc, lfret, chunksLeft, fileClosed, jobsClosed, results,
                    rdpc, collected, firstErr, nread>>
    /\ LargeFileFrame

\* results <- err
WorkerSendResult(err) ==
    /\ Len(results) < concurrency
    /\ IF err = "nil"
         THEN /\ sendingNil > 0
              /\ sendingNil' = sendingNil - 1
              /\ UNCHANGED sendingErr
         ELSE /\ sendingErr > 0
              /\ sendingErr' = sendingErr - 1
              /\ UNCHANGED sendingNil
    /\ results' = Append(results, err)
    /\ idleWorkers' = idleWorkers + 1
    /\ UNCHANGED <<lfpc, lfret, chunksLeft, fileClosed, jobs, jobsClosed,
                    rdpc, collected, firstErr, nread, nprocessed>>
    /\ LargeFileFrame

\* range jobs ends: jobs is closed and empty.
WorkerExit ==
    /\ idleWorkers > 0
    /\ jobsClosed
    /\ jobs = 0
    /\ idleWorkers' = idleWorkers - 1
    /\ UNCHANGED <<lfpc, lfret, chunksLeft, fileClosed, jobs, jobsClosed,
                    results, sendingNil, sendingErr, rdpc, collected,
                    firstErr, nread, nprocessed>>
    /\ LargeFileFrame

\* bytesRead, err := file.Read(buffer): an error (always one once the file
\* is closed), the end of the file, or a chunk.
ReaderRead(ok) ==
    /\ rdpc = "read"
    /\ IF fileClosed \/ ~ok
         THEN rdpc' = "fail" /\ UNCHANGED <<chunksLeft, nread>>
         ELSE IF chunksLeft = 0
         THEN rdpc' = "close" /\ UNCHANGED <<chunksLeft, nread>>
         ELSE /\ rdpc' = "send"
              /\ chunksLeft' = chunksLeft - 1
              /\ nread' = nread + 1
    /\ UNCHANGED <<lfpc, lfret, fileClosed, jobs, jobsClosed, results,
                    idleWorkers, sendingNil, sendingErr, collected, firstErr,
                    nprocessed>>
    /\ LargeFileFrame

\* results <- err; return
ReaderFail ==
    /\ rdpc = "fail"
    /\ Len(results) < concurrency
    /\ results' = Append(results, "err")
    /\ rdpc' = "done"
    /\ UNCHANGED <<lfpc, lfret, chunksLeft, fileClosed, jobs, jobsClosed,
                    idleWorkers, sendingNil, sendingErr, collected, firstErr,
                    nread, nprocessed>>
    /\ LargeFileFrame

\* jobs <- chunk
ReaderSend ==
    /\ rdpc = "send"
    /\ jobs < concurrency
    /\ jobs' = jobs + 1
    /\ rdpc' = "read"
    /\ UNCHANGED <<lfpc, lfret, chunksLeft, fileClosed, jobsClosed, results,
                    idleWorkers, sendingNil, sendingErr, collected, firstErr,
                    nread, nprocessed>>
    /\ LargeFileFrame

\* close(jobs)
ReaderClose ==
    /\ rdpc = "close"
    /\ jobsClosed' = TRUE
    /\ rdpc' = "done"
    /\ UNCHANGED <<lfpc, lfret, chunksLeft, fileClosed, jobs, results,
                    idleWorkers, sendingNil, sendingErr, collected, firstErr,
                    nread, nprocessed>>
    /\ LargeFileFrame

\* if err := <-results; err != nil && firstErr == nil { firstErr = err }
CollectRecv ==
    /\ lfpc = "collect"
    /\ collected < concurrency
    /\ Len(results) > 0
    /\ results' = Tail(results)
    /\ firstErr' = IF Head(results) # "nil" /\ firstErr = "nil"
                     THEN Head(results) ELSE firstErr
    /\ collected' = collected + 1
    /\ UNCHANGED <<lfpc, lfret, chunksLeft, fileClosed, jobs, jobsClosed,
                    idleWorkers, sendingNil, sendingErr, rdpc, nread,
                    nprocessed>>
    /\ LargeFileFrame

\* i >= concurrency: break; return firstErr, and the deferred file.Close()
CollectReturn ==
    /\ lfpc = "collect"
    /\ collected >= concurrency
    /\ lfpc' = "returned"
    /\ lfret' = firstErr
    /\ fileClosed' = TRUE
    /\ UNCHANGED <<chunksLeft, jobs, jobsClosed, results, idleWorkers,
                    sendingNil, sendingErr, rdpc, collected, firstErr, nread,
                    nprocessed>>
    /\ LargeFileFrame

\* =================================================================
\* getStructInfo: the typeCache behind cacheMutex
\* =================================================================
\* A *structInfo is the number of the allocation that made it.

InfoCallers == 1..NInfoCallers
Types == 1..NTypes
NoInfo == 0

StructInfoInit ==
    /\ typeCache = [t \in Types |-> NoInfo]
    /\ rwReaders = {}
    /\ rwWriter = NoOne
    /\ sipc = [c \in InfoCallers |-> "idle"]
    /\ sitype = [c \in InfoCallers |-> 1]
    /\ siinfo = [c \in InfoCallers |-> NoInfo]
    /\ siret = [c \in InfoCallers |-> NoInfo]
    /\ allocs = 0
    /\ stores = [t \in Types |-> 0]
    /\ infoCalls = 0

\* A second look that never finds the entry.
ExistsNever(t) == FALSE

\* info, exists := typeCache[t]
Exists(t) == typeCache[t] # NoInfo

\* The same look, under cacheMutex.Lock (双重检查).
ExistsLocked(t) == typeCache[t] # NoInfo

\* getStructInfo(t) is entered.
GetStructInfoCall(c, t) ==
    /\ sipc[c] \in {"idle", "done"}
    /\ infoCalls < MaxInfoCalls
    /\ infoCalls' = infoCalls + 1
    /\ sipc' = [sipc EXCEPT ![c] = "rlock"]
    /\ sitype' = [sitype EXCEPT ![c] = t]
    /\ siinfo' = [siinfo EXCEPT ![c] = NoInfo]
    /\ siret' = [siret EXCEPT ![c] = NoInfo]
    /\ UNCHANGED <<typeCache, rwReaders, rwWriter, allocs, stores>>
    /\ StructInfoFrame

\* cacheMutex.RLock()
CacheRLock(c) ==
    /\ sipc[c] = "rlock"
    /\ rwWriter = NoOne
    /\ rwReaders' = rwReaders \cup {c}
    /\ sipc' = [sipc EXCEPT ![c] = "check"]
    /\ UNCHANGED <<typeCache, rwWriter, sitype, siinfo, siret, allocs, stores,
                    infoCalls>>
    /\ StructInfoFrame

\* if info, exists := typeCache[t]; exists
FirstCheck(c) ==
    /\ sipc[c] = "check"
    /\ IF Exists(sitype[c])
         THEN /\ siinfo' = [siinfo EXCEPT ![c] = typeCache[sitype[c]]]
              /\ sipc' = [sipc EXCEPT ![c] = "hit"]
         ELSE /\ sipc' = [sipc EXCEPT ![c] = "miss"]
              /\ UNCHANGED siinfo
    /\ UNCHANGED <<typeCache, rwReaders, rwWriter, sitype, siret, allocs,
                    stores, infoCalls>>
    /\ StructInfoFrame

\* cacheMutex.RUnlock(); return info
RUnlockReturn(c) ==
    /\ sipc[c] = "hit"
    /\ rwReaders' = rwReaders \ {c}
    /\ siret' = [siret EXCEPT ![c] = siinfo[c]]
    /\ sipc' = [sipc EXCEPT ![c] = "done"]
    /\ UNCHANGED <<typeCache, rwWriter, sitype, siinfo, allocs, stores,
                    infoCalls>>
    /\ StructInfoFrame

\* cacheMutex.RUnlock() after the miss
RUnlockMiss(c) ==
    /\ sipc[c] = "miss"
    /\ rwReaders' = rwReaders \ {c}
    /\ sipc' = [sipc EXCEPT ![c] = "lock"]
    /\ UNCHANGED <<typeCache, rwWriter, sitype, siinfo, siret, allocs, stores,
                    infoCalls>>
    /\ StructInfoFrame

\* cacheMutex.Lock()
CacheLock(c) ==
    /\ sipc[c] = "lock"
    /\ rwWriter = NoOne
    /\ rwReaders = {}
    /\ rwWriter' = c
    /\ sipc' = [sipc EXCEPT ![c] = "check2"]
    /\ UNCHANGED <<typeCache, rwReaders, sitype, siinfo, siret, allocs, stores,
                    infoCalls>>
    /\ StructInfoFrame

\* The double check: an entry found is returned; otherwise info is built
\* from the fields of t.
DoubleCheck(c) ==
    /\ sipc[c] = "check2"
    /\ IF ExistsLocked(sitype[c])
         THEN /\ siinfo' = [siinfo EXCEPT ![c] = typeCache[sitype[c]]]
              /\ sipc' = [sipc EXCEPT ![c] = "unlock"]
              /\ UNCHANGED allocs
         ELSE /\ allocs' = allocs + 1
              /\ siinfo' = [siinfo EXCEPT ![c] = allocs + 1]
              /\ sipc' = [sipc EXCEPT ![c] = "store"]
    /\ UNCHANGED <<typeCache, rwReaders, rwWriter, sitype, siret, stores,
                    infoCalls>>
    /\ StructInfoFrame

\* typeCache[t] = info
CacheStore(c) ==
    /\ sipc[c] = "store"
    /\ typeCache' = [typeCache EXCEPT ![sitype[c]] = siinfo[c]]
    /\ stores' = [stores EXCEPT ![sitype[c]] = @ + 1]
    /\ sipc' = [sipc EXCEPT ![c] = "unlock"]
    /\ UNCHANGED <<rwReaders, rwWriter, sitype, siinfo, siret, allocs,
                    infoCalls>>
    /\ StructInfoFrame

\* return info, and the deferred cacheMutex.Unlock()
UnlockReturn(c) ==
    /\ sipc[c] = "unlock"
    /\ rwWriter' = NoOne
    /\ siret' = [siret EXCEPT ![c] = siinfo[c]]
    /\ sipc' = [sipc EXCEPT ![c] = "done"]
    /\ UNCHANGED <<typeCache, rwReaders, sitype, siinfo, allocs, stores,
                    infoCalls>>
    /\ StructInfoFrame

\* =================================================================
\* Specifications
\* =================================================================

Init ==
    /\ TransferInit
    /\ OnceInit
    /\ CounterInit
    /\ LockInit
    /\ CacheInit
    /\ ReqInit
    /\ PoolInit
    /\ ChanInit
    /\ SchedInit
    /\ FanInInit
    /\ WorkerPoolInit
    /\ SchedulerInit
    /\ CreditInit
    /\ RepoInit
    /\ SessionInit
    /\ FileutilInit
    /\ ArithInit
    /\ StackInit
    /\ LargeFileInit
    /\ StructInfoInit

\* Concurrent calls of the naive transferMoney.
NextNaive ==
    \E c \in Calls :
        \/ \E from, to \in Accounts : NaiveCall(c, from, to)
        \/ TransferStep(c)

SpecNaive == Init /\ [][NextNaive]_vars

\* Concurrent calls of the lock-ordered transferMoney.
NextOrdered ==
    \E c \in Calls :
        \/ \E from, to \in Accounts : OrderedCall(c, from, to)
        \/ TransferStep(c)

SpecOrdered == Init /\ [][NextOrdered]_vars

\* Goroutines calling GetInstance concurrently.
NextOnce ==
    \E g \in Getters :
        \/ GetInstanceCall(g)
        \/ OnceFast(g)
        \/ OnceLock(g)
        \/ OnceCheck(g)
        \/ InitFn(g)
        \/ OnceStore(g)
        \/ OnceUnlock(g)
        \/ GetInstanceReturn(g)

SpecOnce == Init /\ [][NextOnce]_vars

\* The counter loop, its goroutines and the wait.
NextCounter ==
    \/ \E m \in {"mutex", "atomic"} : MainChoose(m)
    \/ MainSpawn
    \/ MainWait
    \/ \E w \in Workers :
        \/ CounterLock(w)
        \/ CounterLoad(w)
        \/ CounterStore(w)
        \/ CounterUnlock(w)
        \/ AtomicAdd(w)
        \/ WgDone(w)

SpecCounter == Init /\ [][NextCounter]_vars

\* Clients calling doWithLock against one Redis server.
NextLock ==
    \/ \E c \in Clients :
        \/ \E n \in LockNames : DoWithLockCall(c, n)
        \/ Acquire(c)
        \/ AcquireErr(c)
        \/ \E r \in {"fnok", "fnerr"} : FnReturn(c, r)
        \/ Release(c)
        \/ ReleaseErr(c)
    \/ \E n \in LockNames : LockExpire(n)

SpecLock == Init /\ [][NextLock]_vars

\* Goroutines calling GetUserWithCache against one Redis server.
NextCache ==
    \/ \E c \in Readers :
        \/ \E i \in UserIds : GetUserCall(c, i)
        \/ CacheGet(c)
        \/ CacheGetErr(c)
        \/ \E found \in BOOLEAN : QueryDB(c, found)
        \/ SetEmpty(c)
        \/ SetData(c)
    \/ \E i \in UserIds : CacheExpire(i)

SpecCache == Init /\ [][NextCache]_vars

\* processRequest calls, their workers and their contexts.
NextReq ==
    \E r \in Reqs :
        \/ ProcessRequestCall(r)
        \/ CtxCancel(r)
        \/ DoWork(r)
        \/ WorkerSend(r)
        \/ WorkerCtxDone(r)
        \/ CallerRecv(r)
        \/ CallerCtxDone(r)
        \/ CallerTimeout(r)

\* A runnable goroutine is scheduled in the end, and doWork returns.
FairSpecReq ==
    Init /\ [][NextReq]_vars /\ \A r \in Reqs : WF_vars(WorkerStep(r))

\* Submitters, the dispatcher and the closing of one pool.
NextPool ==
    \/ \E c \in Submitters :
        \/ \E task \in Tasks : SubmitCall(c, task)
        \/ \E fnNil \in BOOLEAN : SubmitFuncCall(c, fnNil)
        \/ \E task \in Tasks, ctx \in {"live", "done"} :
              SubmitWithContextCall(c, task, ctx)
        \/ SubmitEntry(c)
        \/ SubmitCount(c)
        \/ SubmitEnqueue(c)
        \/ SubmitCtxDone(c)
        \/ SubmitQuit(c)
        \/ SubmitCtxCancel(c)
    \/ \E t \in Times : DispatcherTake(t)
    \/ PoolCloseStore
    \/ PoolCloseQuit

SpecPool == Init /\ [][NextPool]_vars

\* Goroutines sending on, receiving from and closing one channel.
NextChan ==
    \/ \E n \in 0..MaxBuf : MakeChan(n)
    \/ \E g \in ChanGs :
        \/ \E v \in Vals, block \in BOOLEAN : ChansendCall(g, v, block)
        \/ ChansendEntry(g)
        \/ ChansendLocked(g)
        \/ ChansendWake(g)
        \/ \E block \in BOOLEAN : Chanrecv(g, block)
        \/ ChanrecvWake(g)
        \/ Closechan(g)

SpecChan == Init /\ [][NextChan]_vars

\* One P in schedule / findrunnable, the other Ps around it.
NextSched ==
    \/ Newproc
    \/ Goexit
    \/ ScheduleTick
    \/ ScheduleTickLocked
    \/ ScheduleLocal
    \/ FindLocal
    \/ FindGlobal
    \/ FindGlobalLocked
    \/ \E n \in 0..MaxReady : FindNetpoll(n)
    \/ \E spin \in BOOLEAN : FindSteal(spin)
    \/ FindLast
    \/ FindLastLocked
    \/ \E inheritTime \in BOOLEAN : Execute(inheritTime)
    \/ \E p2 \in OtherPs :
        \/ OtherNewproc(p2)
        \/ OtherRunqget(p2)
        \/ OtherRunqsteal(p2)
    \/ OtherGlobrunqget
    \/ OtherInjectglist

SpecSched == Init /\ [][NextSched]_vars

\* One fanIn call, the producers of its inputs and the consumer of result.
NextFanIn ==
    \/ \E n \in 0..NInputs :
         \E chs \in [1..n -> InChans], caps \in [InChans -> InCaps] :
            FanInCall(chs, caps)
    \/ \E c \in InChans : InputSend(c) \/ InputClose(c)
    \/ \E f \in Forwarders : FwdStep(f)
    \/ CloserStep
    \/ ConsumerEnd
    \/ ConsumerStop

SpecFanIn == Init /\ [][NextFanIn]_vars

\* The goroutines fanIn starts are scheduled again and again.
FairSpecFanIn ==
    /\ SpecFanIn
    /\ \A f \in Forwarders : WF_vars(FwdStep(f))
    /\ WF_vars(CloserStep)

\* One workerPool call, the producer of tasks and the consumer of results.
NextWorkerPool ==
    \/ \E n \in 0..MaxPoolWorkers, tcap \in InCaps, rcap \in InCaps :
            WorkerPoolCall(n, tcap, rcap)
    \/ TaskSend
    \/ TasksClose
    \/ \E w \in PoolWorkers : WorkerRange(w) \/ WorkerResult(w)
    \/ PoolCloserWait
    \/ PoolCloserClose
    \/ ResultsRecv

SpecWorkerPool == Init /\ [][NextWorkerPool]_vars

\* Goroutines calling AddTask and CancelTask of one Scheduler, and its timers.
NextScheduler ==
    \/ \E id \in TaskNames : AddTask(id) \/ CancelTask(id)
    \/ \E t \in Timers : TimerFire(t) \/ TimerCleanup(t)

SpecScheduler == Init /\ [][NextScheduler]_vars

\* TransferCredit calls, one after the other, on a user_credits table.
NextCredit ==
    \/ \E u \in CreditUsers, v \in 0..MaxCredit : CreditRow(u, v)
    \/ \E fromID, toID \in CreditUsers, amount \in Amounts, ok \in BOOLEAN :
            TransferCreditCall(fromID, toID, amount, ok)
    \/ \E ok \in BOOLEAN :
        \/ ExecDebit(ok)
        \/ QueryBalance(ok)
        \/ ExecCredit(ok)
        \/ InsertTransfer(ok)
        \/ TxCommit(ok)

SpecCredit == Init /\ [][NextCredit]_vars

\* A repo is made by NewUserRepo and closed, perhaps more than once.
NextRepo ==
    \/ \E i \in DOMAIN StmtOrder, ok \in BOOLEAN : Prepare(i, ok)
    \/ CloseCall
    \/ \E i \in DOMAIN StmtOrder, ok \in BOOLEAN : CloseStmt(i, ok)
    \/ \E s \in Stmts, ok \in BOOLEAN : StmtExec(s, ok)

SpecRepo == Init /\ [][NextRepo]_vars

\* Clients sending login, profile and logout requests in any order.
NextSession ==
    \/ \E valid \in BOOLEAN : Login(valid)
    \/ \E sid \in {NoCookie} \cup SessIds : Logout(sid)
    \/ \E sid \in SessIds : SessionExpire(sid)
    \/ \E r \in ProfileReqs :
        \/ \E sid \in {NoCookie} \cup SessIds : ProfileCall(r, sid)
        \/ \E ok \in BOOLEAN : ProfileGet(r, ok)
        \/ ProfileExpire(r)

SpecSession == Init /\ [][NextSession]_vars

\* One run of the file utility on a file system that holds some files.
NextFileutil ==
    \/ \E p \in FilePaths, c \in Contents : FileExists(p, c)
    \/ \E ops \in OpSets, help \in BOOLEAN,
          path \in {""} \cup FilePaths, content \in Contents,
          dest \in {""} \cup FilePaths :
            ParseFlags(CommandFlags(ops, help, path, content, dest))
    \/ \E ok \in BOOLEAN : Main(ok)

SpecFileutil == Init /\ [][NextFileutil]_vars

\* One call of one of the two functions, with any int arguments.
NextArith ==
    \/ \E n \in Ints, d \in Ints : CalcCall(n, d)
    \/ \E i \in Ints : DoubleCall(i)

SpecArith == Init /\ [][NextArith]_vars

\* Push and Pop calls on one Stack in any order.
NextStack ==
    \/ \E item \in ItemVals : Push(item)
    \/ Pop

SpecStack == Init /\ [][NextStack]_vars

\* One call of processLargeFile and the goroutines it starts.
NextLargeFile ==
    \/ \E nchunks \in 0..MaxChunks, openOk \in BOOLEAN :
          ProcessLargeFileCall(nchunks, openOk)
    \/ \E err \in {"nil", "err"} : WorkerProcess(err)
    \/ \E err \in {"nil", "err"} : WorkerSendResult(err)
    \/ WorkerExit
    \/ \E ok \in BOOLEAN : ReaderRead(ok)
    \/ ReaderFail
    \/ ReaderSend
    \/ ReaderClose
    \/ CollectRecv
    \/ CollectReturn

SpecLargeFile == Init /\ [][NextLargeFile]_vars

\* Goroutines calling getStructInfo at the same time.
NextStructInfo ==
    \E c \in InfoCallers :
        \/ \E t \in Types : GetStructInfoCall(c, t)
        \/ CacheRLock(c)
        \/ FirstCheck(c)
        \/ RUnlockReturn(c)
        \/ RUnlockMiss(c)
        \/ CacheLock(c)
        \/ DoubleCheck(c)
        \/ CacheStore(c)
        \/ UnlockReturn(c)

SpecStructInfo == Init /\ [][NextStructInfo]_vars

\* =================================================================
\* Properties
\* =================================================================

\* C1: concurrent calls of the lock-ordered transferMoney, over any from/to
\* arguments, never deadlock: no set of calls ever waits in a cycle for the
\* account mutexes its own members hold.
C1_OrderedNoDeadlock == \A S \in SUBSET Calls : ~Deadlocked(S)

\* C2: once transferMoney(a, b) and transferMoney(b, a) of the naive version
\* each hold their first mutex and wait for the other's, they stay so in
\* every later state: neither ever gets its second mutex, neither returns.
CrossWait(c, d) ==
    /\ c # d
    /\ tpc[c] = "lock2" /\ tpc[d] = "lock2"
    /\ tplan[c][1] # tplan[c][2]
    /\ tplan[d] = <<tplan[c][2], tplan[c][1]>>
    /\ mu[tplan[c][1]] = c /\ mu[tplan[d][1]] = d

C2_NaiveDeadlockForever ==
    [][\A c, d \in Calls : CrossWait(c, d) => CrossWait(c, d)']_vars

C2_Witness == \E c, d \in Calls : CrossWait(c, d)

\* C3: the function given to once.Do runs at most once, and exactly once by
\* the time any caller is past once.Do; no caller gets past once.Do while
\* instance is nil; every caller returned the one non-nil instance.
C3_OnceSingleton ==
    /\ initCount <= 1
    /\ \A g \in Getters :
        /\ gpc[g] \in {"ret", "done"} => initCount = 1 /\ instance # NoOne
        /\ gpc[g] = "done" => gret[g] = instance /\ gret[g] # NoOne

C3_Witness ==
    \E g, h \in Getters :
        g # h /\ gpc[g] = "done" /\ gpc[h] = "done" /\ gret[g] = gret[h]

\* C4: when wg.Wait() has returned after N goroutines each made one
\* synchronised increment (mutex-protected or atomic), the counter is N.
C4_NoLostIncrement == mainpc = "after" => counter = NWorkers

C4_Witness == mainpc = "after" /\ cmode = "mutex"

\* C5: a releaseLock that runs its script deletes lock:<lockName> and returns
\* true exactly when the key held the caller's lockValue; otherwise (key
\* absent or another client's value) the key is unchanged and it returns
\* false.  The other clients' keys are never touched.
ReleaseStep(c) == dpc[c] = "release" /\ dpc'[c] = "done"

C5_ReleaseOnlyOwn ==
    [][\A c \in Clients : ReleaseStep(c) =>
          /\ relRes'[c] => lockKey[dname[c]] = dval[c]
                            /\ lockKey'[dname[c]] = NoOne
          /\ ~relRes'[c] => lockKey' = lockKey
          /\ \A n \in LockNames \ {dname[c]} : lockKey'[n] = lockKey[n]
          /\ lockKey[dname[c]] # dval[c] => ~relRes'[c]]_vars

C5_Witness ==
    \E c, d \in Clients :
        /\ c # d /\ dpc[c] = "done" /\ dres[c] = "fnok" /\ ~relRes[c]
        /\ dpc[d] = "fn" /\ dname[d] = dname[c] /\ lockKey[dname[d]] = dval[d]

\* C6 as stated: at most one caller runs fn for a lockName, whatever fn's
\* duration.
C6_MutualExclusion ==
    \A n \in LockNames : \A c, d \in Clients :
        InFn(c, n) /\ InFn(d, n) => c = d

\* C6 as amended: two callers run fn for the same lockName only when the
\* key of one of them expired while its fn was running; a caller that
\* returns the lock error or acquireLock's error has not run fn.
C6_ExclusionUntilExpiry ==
    /\ \A n \in LockNames : \A c, d \in Clients :
          InFn(c, n) /\ InFn(d, n) /\ c # d => lostKey[c] \/ lostKey[d]
    /\ \A c \in Clients : dres[c] \in {"lockerr", "err"} => ~ranFn[c]

C6_Witness ==
    \E c, d \in Clients :
        /\ c # d /\ dname[c] = dname[d]
        /\ dpc[c] = "fn" /\ ~lostKey[c]
        /\ dpc[d] = "done" /\ dres[d] = "lockerr"

\* C7: a call that missed the cache and whose queryUserFromDB found nothing
\* stores the empty value under user:<id>; and a call whose rdb.Get finds
\* an entry under user:<id> (the empty one included, until it expires)
\* returns at once, without calling queryUserFromDB.
C7_NegativeCaching ==
    [][\A c \in Readers :
          /\ kpc[c] = "setempty" /\ kpc'[c] = "done"
                => cache'[kid[c]] = "empty"
          /\ kpc[c] = "get" /\ kpc'[c] # "get" /\ cache[kid[c]] # "absent"
                => kpc'[c] = "done" /\ ~kasked'[c]]_vars

C7_Witness ==
    \E c \in Readers :
        /\ kpc[c] = "done" /\ kres[c] = <<"zero", "nil">> /\ ~kasked[c]
        /\ cache[kid[c]] = "empty"

\* C8: whichever branch the caller's select takes, the worker goroutine of
\* a processRequest call terminates: it is never left blocked on its send.
C8_WorkerTerminates ==
    \A r \in Reqs : (wpc[r] = "work") ~> (wpc[r] = "exit")

C8_Witness ==
    \E r \in Reqs :
        /\ rres[r] = "timeout" /\ ~ctxDone[r]
        /\ wpc[r] = "exit" /\ Len(ch[r]) = 1

\* C9: a Submit, SubmitFunc or SubmitWithContext call that finds closed at 1
\* returns "pool is closed"; on an open pool a nil task or a task with a nil
\* Fn is turned down with an error as well; either way taskQueue, totalTasks
\* and the other counters are as they were.
SubmitEntryStep(c) == spc[c] = "entry" /\ spc'[c] # "entry"

C9_ClosedPoolRejects ==
    [][\A c \in Submitters :
          /\ SubmitEntryStep(c) /\ pclosed = 1
                => /\ spc'[c] = "done"
                   /\ sres'[c] = "pool is closed"
                   /\ UNCHANGED <<taskQueue, PoolCounters>>
          /\ SubmitEntryStep(c) /\ pclosed = 0 /\ stask[c] \in {"nil", "nofn"}
                => /\ spc'[c] = "done"
                   /\ sres'[c] = "task or task function cannot be nil"
                   /\ UNCHANGED <<taskQueue, PoolCounters>>]_vars

C9_Witness ==
    \E c, d \in Submitters :
        /\ c # d /\ pclosed = 1
        /\ spc[c] = "done" /\ sres[c] = "pool is closed"
        /\ spc[d] = "done" /\ sres[d] = "task or task function cannot be nil"

\* C10: chansend never stores or hands over a value on a closed channel.  A
\* send that finds closed set under the lock, and a send woken from sendq
\* by the close (gp.param == nil), panics with "send on closed channel";
\* no step of a sender on a closed channel changes qcount, sendx, the
\* buffer or the receivers; and a close wakes every parked sender so.
SendStep(g) ==
    /\ hpc[g] \in {"sendLock", "sendWoken"}
    /\ hpc'[g] # hpc[g]

C10_NoSendOnClosed ==
    [][\A g \in ChanGs :
          /\ SendStep(g) /\ closed # 0 /\ (hpc[g] = "sendLock" \/ gparam[g] = NoOne)
                => /\ hres'[g] = "send on closed channel"
                   /\ UNCHANGED <<qcount, sendx, buf, recvq, hgot>>
          /\ SendStep(g) /\ closed # 0
                => UNCHANGED <<qcount, sendx, buf, recvq, hgot>>
          /\ hpc[g] = "sendParked" /\ closed = 0 /\ closed' # 0
                => hpc'[g] = "sendWoken" /\ gparam'[g] = NoOne]_vars

C10_Witness ==
    \E g, h \in ChanGs :
        /\ g # h /\ closed = 1
        /\ hres[g] = "send on closed channel"
        /\ hpc[h] = "sendWoken" /\ gparam[h] = NoOne

\* C11: for a buffered channel (dataqsiz > 0), qcount <= dataqsiz and
\* 0 <= sendx < dataqsiz always; on the open channel a send parks, or returns
\* false when block is false, only when no receiver waits in recvq and
\* qcount == dataqsiz, and otherwise returns true without blocking.
BufferedOpen == hmade /\ dataqsiz > 0 /\ closed = 0

SendActs(g) ==
    /\ hpc[g] \in {"sendEntry", "sendLock"}
    /\ hpc'[g] # hpc[g]

C11_BufferedSend ==
    /\ [](hmade /\ dataqsiz > 0 =>
             qcount <= dataqsiz /\ sendx >= 0 /\ sendx < dataqsiz)
    /\ [][\A g \in ChanGs : BufferedOpen /\ SendActs(g) =>
             /\ hpc'[g] = "sendParked"
                   => hblock[g] /\ recvq = <<>> /\ qcount = dataqsiz
             /\ hpc'[g] = "idle" /\ hres'[g] = "false"
                   => ~hblock[g] /\ recvq = <<>> /\ qcount = dataqsiz
             /\ hpc[g] = "sendLock" /\ (recvq # <<>> \/ qcount < dataqsiz)
                   => hpc'[g] = "idle" /\ hres'[g] = "true"]_vars

C11_Witness ==
    \E g, h \in ChanGs :
        /\ BufferedOpen /\ qcount = dataqsiz /\ sendx = 0
        /\ hpc[g] = "sendParked"
        /\ hpc[h] = "idle" /\ hres[h] = "true"

\* C12: schedule selects the next goroutine in a fixed priority order: a
\* goroutine of the global queue only when the local queue is empty, a stolen
\* one only when the local queue is empty and the global queue was found
\* empty.
Selects(src) == ppc # "execute" /\ ppc' = "execute" /\ gpsrc' = src

StealsLast ==
    Selects("steal") \/ Selects("netpoll")
        => runq[pp] = 0 /\ globSeen = "empty"

Held == {f \in DOMAIN channels : fwpc[f] = "send"}

DeliveredOnce ==
    \A v \in 1..MaxSent : delivered[v] <= (IF v <= sentIn THEN 1 ELSE 0)

C13_Safe ==
    /\ resClosed <= 1
    /\ resClosed > 0 =>
             /\ \A c \in Inputs : inclosed[c] /\ inbuf[c] = <<>>
             /\ \A f \in DOMAIN channels : fwpc[f] = "done"
             /\ \A v \in 1..sentIn : delivered[v] = 1
    /\ Held # {} => resClosed = 0
    /\ DeliveredOnce

C13_FanIn ==
    /\ []C13_Safe
    /\ \A v \in 1..MaxSent :
          (sentIn >= v) ~> (delivered[v] = 1 \/ conspc = "gone")

C13_Witness ==
    /\ resClosed = 1 /\ conspc = "done"
    /\ Len(channels) = 2 /\ channels[1] # channels[2]
    /\ sentIn = 2 /\ delivered[1] = 1 /\ delivered[2] = 1

\* C14: workerPool closes results exactly once and only after all numWorkers
\* workers have exited, that is after tasks was closed and the result of
\* every task received from tasks has been sent on results; exactly one
\* result is produced per task and no worker sends on results after the close.
WorkersExited == \A w \in 1..numWorkers : wkpc[w] = "done"

TasksAnswered ==
    /\ tasksClosed /\ taskbuf = <<>>
    /\ \A t \in 1..tasksSent : produced[t] = 1

OneResultPerTask ==
    /\ \A t \in TaskIds : produced[t] <= (IF t <= tasksSent THEN 1 ELSE 0)
    /\ \A w \in PoolWorkers : wkpc[w] = "send" => resultsClosed = 0
    /\ resultsClosed <= 1

C14_CloseAfterTasks ==
    /\ OneResultPerTask
    /\ resultsClosed > 0 => WorkersExited /\ TasksAnswered

\* What holds for every numWorkers: results is closed after the workers that
\* were started have exited; with numWorkers >= 1 that is after tasks was
\* closed and every task answered, with numWorkers <= 0 no worker is started
\* and results is closed whatever the state of tasks.
CloseAfterWorkers ==
    /\ OneResultPerTask
    /\ resultsClosed > 0 => WorkersExited
    /\ resultsClosed > 0 /\ numWorkers >= 1 => TasksAnswered

AllAnswered ==
    /\ resultsClosed = 1 /\ numWorkers = 2
    /\ tasksSent = 2 /\ produced[1] = 1 /\ produced[2] = 1

\* C15: as long as a task registered under id has not started running and
\* has not been cancelled or replaced, s.tasks[id] refers to its timer, so
\* CancelTask(id) returns true and the task never runs afterwards;
\* CancelTask(id) returns false only when no task under id is pending.
PendingTask(t) == timerAt[t] = "armed"

C15_PendingIsCancellable ==
    /\ [](\A t \in Timers : PendingTask(t) => tasks[timerId[t]] = t)
    /\ [][\A t \in Timers :
             /\ timerAt[t] = "stopped" => timerAt'[t] = "stopped"
             /\ PendingTask(t) /\ cancelRet' # cancelRet
                 /\ cancelRet'[1] = timerId[t]
                   => cancelRet'[2] /\ timerAt'[t] = "stopped"]_vars

\* C16: TransferCredit is all-or-nothing: a call that returns nil has
\* committed the debit of fromID, the credit of toID and the history row; a
\* call that returns an error has committed nothing; a call that would take
\* the sender below 0 returns the insufficient-credit error; and no committed
\* credit is negative.
Returned == txpc = "idle" /\ txret \notin {"none", "running"}

\* The committed tables after the whole transfer, from those before it.
Transferred(rows, fromID, toID, amount) ==
    [u \in CreditUsers |->
        <<rows[u][1] - (IF u = fromID THEN amount ELSE 0)
                     + (IF u = toID THEN amount ELSE 0)>>]

C16_AllOrNothing ==
    /\ \A u \in CreditUsers : credit[u] # NoRow => credit[u][1] >= 0
    /\ Returned /\ txret = "nil" =>
          /\ \A u \in CreditUsers : txBefore[1][u] # NoRow
          /\ credit = Transferred(txBefore[1], txargs[1], txargs[2], txargs[3])
          /\ transfers = Append(txBefore[2], txargs)
    /\ Returned /\ txret # "nil" =>
          credit = txBefore[1] /\ transfers = txBefore[2]
    /\ Returned /\ txBefore[1][txargs[1]] # NoRow
           /\ txBefore[1][txargs[1]][1] - txargs[3] < 0 => txret # "nil"

\* C17: every UserRepo.Close call closes all four prepared statements,
\* whether or not closing one of them returns an error.
C17_CloseClosesAll ==
    repopc = <<"ready", 0>> /\ closeRet \in {"nil", "err"}
        => closedNow = Stmts /\ \A s \in Stmts : stmt[s] = "closed"

\* C18: GET /profile answers 200 only when its session_id cookie names a
\* session key stored in Redis when the handler looks it up, and answers 401
\* otherwise; a /profile request that comes after a POST /logout with the
\* same session id is never answered 200.
C18_SessionLifecycle ==
    /\ [](\A r \in ProfileReqs :
             /\ pfpc[r] = "done" => pfStatus[r] \in {"200", "401"}
             /\ pfStatus[r] = "200" => pfsid[r] # NoCookie /\ ~pfLate[r]
             /\ pfpc[r] \in {"get", "expire"} /\ pfLate[r]
                   => pfsid[r] \notin sessKeys)
    /\ [][\A r \in ProfileReqs :
             /\ pfStatus'[r] = "200" /\ pfStatus[r] # "200"
                   => pfpc[r] = "expire"
             /\ pfpc[r] = "get" /\ pfpc'[r] = "expire"
                   => pfsid[r] \in sessKeys
             /\ pfpc[r] = "get" /\ pfpc'[r] = "done"
                   => pfStatus'[r] = "401"]_vars

C18_Witness ==
    \E r, q \in ProfileReqs :
        /\ pfStatus[r] = "200" /\ pfsid[r] # NoCookie
        /\ pfsid[q] = pfsid[r] /\ pfLate[q] /\ pfStatus[q] = "401"

\* C19: when -help is set main prints the help text and performs no file
\* operation, whatever other flags are present; when no operation flag is
\* set the help text is printed as well and the file system is unchanged.
MainStep == mpc = "parsed" /\ mpc' = "exit"

C19_HelpOnly ==
    [][MainStep /\ (Help(cmdFlags) \/ cmdFlags[1] = {}) =>
          /\ printed' = <<"help", "none">>
          /\ called' = "none"
          /\ fs' = fs]_vars

C19_Witness ==
    /\ mpc = "exit" /\ Help(cmdFlags) /\ cmdFlags[1] = {"Delete", "Write"}
    /\ Path(cmdFlags) = "a" /\ fs["a"] = <<"x">>
    /\ printed = <<"help", "none">> /\ called = "none"

\* C20: when the required argument of the operation main goes for (the first
\* set operation flag in the order of the switch) is missing (-path for
\* create, read, write, append, delete and list; -path or -dest for copy and
\* rename), main prints that operation's "required" message and returns
\* without calling a file operation, and the file system is unchanged.
FirstOp(f) ==
    OpFlags[CHOOSE i \in DOMAIN OpFlags :
                /\ Flag(f, OpFlags[i])
                /\ \A j \in 1..(i - 1) : ~Flag(f, OpFlags[j])]

ArgMissing(f) ==
    \/ Path(f) = ""
    \/ (FirstOp(f) \in {"Copy", "Rename"} /\ Dest(f) = "")

C20_RequiredArgument ==
    [][MainStep /\ ~Help(cmdFlags) /\ cmdFlags[1] # {}
           /\ ArgMissing(cmdFlags) =>
          /\ printed' = <<"required", FirstOp(cmdFlags)>>
          /\ called' = "none"
          /\ fs' = fs]_vars

C20_Witness ==
    /\ mpc = "exit" /\ ~Help(cmdFlags) /\ cmdFlags[1] = {"Copy"}
    /\ Path(cmdFlags) = "a" /\ Dest(cmdFlags) = "" /\ fs["a"] = <<"x">>
    /\ printed = <<"required", "Copy">> /\ called = "none"

\* C21 (as stated): calcRemainderAndMod(n, d) returns (0, 0, error) when
\* d = 0; for every d # 0 it returns (q, r, nil) with n = q*d + r, |r| < |d|
\* and r of the sign of n or 0 (q is the quotient truncated toward zero).
CalcReturned == arfn = "calcRemainderAndMod"

TruncatedDivision(n, d, q, r) ==
    /\ n = q * d + r
    /\ Abs(r) < Abs(d)
    /\ (r = 0 \/ (r < 0) = (n < 0))

C21_QuotientRemainder ==
    CalcReturned =>
        IF arargs[2] = 0
        THEN arret = <<0, 0, "error">>
        ELSE /\ arret[3] = "nil"
             /\ TruncatedDivision(arargs[1], arargs[2], arret[1], arret[2])

\* C21 (amended): the same, except for the one division whose quotient is
\* no int: the most negative int divided by -1 returns (that int, 0, nil).
C21_ButMinIntByMinusOne ==
    CalcReturned =>
        IF arargs[2] = 0
        THEN arret = <<0, 0, "error">>
        ELSE IF arargs[1] = MinInt /\ arargs[2] = 0 - 1
        THEN arret = <<MinInt, 0, "nil">>
        ELSE /\ arret[3] = "nil"
             /\ TruncatedDivision(arargs[1], arargs[2], arret[1], arret[2])

C21_Witness ==
    /\ CalcReturned
    /\ arargs = <<0 - 7, 2>>
    /\ arret = <<0 - 3, 0 - 1, "nil">>

\* C22 (as stated): doubleEven(i) returns (2*i, nil) for every even i and
\* (0, error) for every odd i, negative ones included.
DoubleReturned == arfn = "doubleEven"

C22_DoubleEven ==
    DoubleReturned =>
        IF arargs[1] % 2 = 0
        THEN arret = <<2 * arargs[1], "nil">>
        ELSE arret = <<0, "error">>

\* C22 (amended): for an even i whose double is an int it returns (2*i, nil);
\* for an even i whose double is beyond the ints it returns the double wrapped
\* around (2*i - 2^IntBits or 2*i + 2^IntBits) with a nil error; for every odd
\* i it returns (0, error).
C22_DoubleWraps ==
    DoubleReturned =>
        LET i == arargs[1] IN
        IF i % 2 # 0 THEN arret = <<0, "error">>
        ELSE IF 2 * i > MaxInt THEN arret = <<2 * i - 2 ^ IntBits, "nil">>
        ELSE IF 2 * i < MinInt THEN arret = <<2 * i + 2 ^ IntBits, "nil">>
        ELSE arret = <<2 * i, "nil">>

C22_Witness ==
    /\ DoubleReturned
    /\ arargs = <<0 - 2>>
    /\ arret = <<0 - 4, "nil">>

\* C23: the Stack is LIFO. A Pop on a stack that holds elements returns
\* (x, true) with x the most recently pushed element not yet popped, and
\* removes exactly that element (what is left, with x pushed again, is the
\* stack as it was); a Pop on an empty stack returns (zero value, false) and
\* leaves the stack empty; a Push followed immediately by a Pop restores the
\* contents of before the Push and returns the pushed element.
PopStep == stackOp' = "Pop" /\ itemsWas' = items

PushStep == stackOp' = "Push" /\ itemsWas' = items

C23_StackLIFO ==
    /\ [][PopStep /\ items # <<>> =>
            /\ stackRet'[2] = TRUE
            /\ Append(items', stackRet'[1]) = items]_vars
    /\ [][PopStep /\ items = <<>> =>
            /\ stackRet' = <<ZeroItem, FALSE>>
            /\ items' = <<>>]_vars
    /\ [][PushStep => /\ Len(items') = Len(items) + 1
                      /\ SubSeq(items', 1, Len(items)) = items]_vars
    /\ [][PopStep /\ stackOp = "Push" =>
            /\ items' = itemsWas
            /\ Append(itemsWas, stackRet'[1]) = items]_vars

C23_Witness ==
    /\ stackOp = "Pop"
    /\ itemsWas = <<1, 2, 1>>
    /\ stackRet = <<1, TRUE>>
    /\ items = <<1, 2>>

\* C24: totalTasks equals the number of submissions the pool accepted (the
\* Submit, SubmitFunc and SubmitWithContext calls that returned nil after
\* placing their task in taskQueue); a submission that returns an error
\* leaves totalTasks alone.  Compared while no submission is under way; the
\* accepted tasks are those still queued and those the dispatcher took.
NoSubmitRunning == \A c \in Submitters : spc[c] \in {"idle", "done"}

Accepted == Len(taskQueue) + failedTasks + handed

C24_TotalIsAccepted == NoSubmitRunning => totalTasks = Accepted

\* C25: a task the dispatcher takes from taskQueue whose Deadline is
\* non-zero and already past goes to no worker and is not queued again:
\* failedTasks grows by exactly one and, when the task has a Callback, exactly
\* one goroutine is started that calls it with "task deadline exceeded"; a
\* task with a zero Deadline is never treated as expired, whatever the time.
TakeStep == Len(taskQueue) > 0 /\ taskQueue' = Tail(taskQueue)

TakenTask == Head(taskQueue)

PastDeadline == Deadline(TakenTask) # 0 /\ Deadline(TakenTask) < now'

C25_ExpiredTaskFails ==
    /\ [][TakeStep /\ PastDeadline =>
            /\ handed' = handed
            /\ failedTasks' = failedTasks + 1
            /\ callbacks' =
                 callbacks + (IF TakenTask \in {"plaincb", "duecb"} THEN 1 ELSE 0)]_vars
    /\ [][TakeStep /\ Deadline(TakenTask) = 0 =>
            /\ failedTasks' = failedTasks
            /\ callbacks' = callbacks
            /\ handed' = handed + 1]_vars
    /\ [](callbacks <= failedTasks)

C25_Witness ==
    /\ taskQueue = <<>>
    /\ failedTasks = 1 /\ handed = 1
    /\ callbacks = 1
    /\ now = 2

\* C26: processLargeFile terminates for a file of any number of chunks (the
\* caller never waits for a result that no goroutine is left to send), and
\* when it returns after opening the file processChunk has completed for
\* every chunk that was read.
CollectStuck ==
    /\ lfpc = "collect"
    /\ collected < concurrency
    /\ results = <<>>
    /\ rdpc = "done"
    /\ sendingNil + sendingErr = 0
    /\ (jobs = 0 \/ idleWorkers = 0)

C26_TerminatesAllProcessed ==
    /\ ~CollectStuck
    /\ (lfpc = "returned" /\ fileClosed => nprocessed = nread)

\* C27: for an id that queryUserFromDB does not find, every call of
\* GetUserWithCache returns a non-nil error: no call returns the zero User
\* together with a nil error.  (The only source of a zero User is the entry
\* stored after queryUserFromDB failed for that id.)
C27_NotFoundAlwaysErrors ==
    \A c \in Readers :
        kpc[c] = "done" /\ kres[c][1] = "zero" => kres[c][2] # "nil"

\* C28: after copyFile(src, dest) returns nil, dest holds what src held
\* before the call and src holds what it held, for any pair of paths; when
\* src cannot be opened it returns an error and no file is created or changed.
CopyCalled == MainStep /\ called' = "Copy"

C28_CopyKeepsSource ==
    [][CopyCalled =>
          LET src == Path(cmdFlags)
              dest == Dest(cmdFlags)
          IN  /\ printed' = <<"done", "Copy">> =>
                    /\ fs'[dest] = fs[src]
                    /\ fs'[src] = fs[src]
              /\ fs[src] = NoFile =>
                    /\ printed' = <<"error", "Copy">>
                    /\ fs' = fs]_vars

\* C29: appendToFile(path, content) on an existing file keeps the previous
\* content and adds content at its end; on a path that does not exist it
\* returns an error and creates no file; createFile and writeFile replace
\* whatever the file held (by nothing, and by content).
C29_AppendKeepsContent ==
    [][MainStep =>
          LET path == Path(cmdFlags)
              content == Content(cmdFlags)
          IN  /\ called' = "Append" /\ printed' = <<"done", "Append">> =>
                    /\ fs[path] # NoFile
                    /\ fs'[path] = <<fs[path][1] \o content>>
                    /\ \A p \in FilePaths \ {path} : fs'[p] = fs[p]
              /\ called' = "Append" /\ fs[path] = NoFile =>
                    /\ printed' = <<"error", "Append">>
                    /\ fs' = fs
              /\ called' = "Create" /\ printed' = <<"done", "Create">> =>
                    fs'[path] = <<"">>
              /\ called' = "Write" /\ printed' = <<"done", "Write">> =>
                    fs'[path] = <<content>>]_vars

C29_Witness ==
    /\ mpc = "exit"
    /\ called = "Append" /\ printed = <<"done", "Append">>
    /\ Content(cmdFlags) = "x"
    /\ fs[Path(cmdFlags)] = <<"xx">>

\* C30: under any interleaving of getStructInfo calls, the structInfo of a
\* type is stored in typeCache at most once and never replaced, the calls for
\* one type all return the same pointer, typeCache is written only by the
\* goroutine holding the write lock, and it is read only by a goroutine
\* holding the read lock (no writer inside) or the write lock.
C30_BuiltOnceUnderLock ==
    /\ [](\A t \in Types : stores[t] <= 1)
    /\ [](\A c, d \in InfoCallers :
            sipc[c] = "done" /\ sipc[d] = "done" /\ sitype[c] = sitype[d]
                => siret[c] = siret[d] /\ siret[c] # NoInfo)
    /\ [](\A c \in InfoCallers :
            /\ sipc[c] = "check" => c \in rwReaders /\ rwWriter = NoOne
            /\ sipc[c] \in {"check2", "store"} => rwWriter = c /\ rwReaders = {})
    /\ [][\A t \in Types : typeCache'[t] # typeCache[t] =>
            /\ typeCache[t] = NoInfo
            /\ \E c \in InfoCallers :
                 rwWriter = c /\ sitype[c] = t /\ rwReaders = {}]_vars

C30_Witness ==
    /\ sipc[1] = "done" /\ sipc[2] = "done"
    /\ sitype[1] = sitype[2]
    /\ siret[1] = siret[2] /\ siret[1] # NoInfo
    /\ allocs = 2
    /\ infoCalls = MaxInfoCalls

=============================================================================
